---- MODULE Spec2Model ----
(***************************************************************************)
(* A model of the analysis core of audiotools: textual time               *)
(* specifications (utils/time.rs), time-range resolution and the           *)
(* selection of the analysis window (command/spectrum.rs,                  *)
(* command/waveform.rs), the onset detector (utils/detection.rs), the      *)
(* frames, tick list and drawing loop of the spectrogram                   *)
(* (command/spectrum.rs), and the RMS track and decibel scale of the       *)
(* waveform (command/waveform.rs).                                         *)
(*                                                                         *)
(* f32 values are modelled as exact rationals [n, d] in lowest terms with  *)
(* d > 0, plus the IEEE not-a-number value, written [n |-> 0, d |-> 0].    *)
(* Rounding of f32 arithmetic is not modelled; the ordering rules of NaN   *)
(* (every comparison with NaN is false) are.                               *)
(***************************************************************************)
EXTENDS Integers, Sequences, FiniteSets, TLC

VARIABLES
    time_str,        \* SpecParse: the text handed to parse_time_specification
    parsed,          \* SpecParse: None before the call, Some(result) after it
    samples,         \* the decoded mono sample buffer (a sequence of amplitudes)
    sample_rate,     \* its sample rate in Hz
    config,          \* SpecOnset: the AutoStartDetection (self) of the scan
    i,               \* SpecOnset: the loop variable of detect_start_time
    triggered,       \* SpecOnset: local `triggered`
    potential_start, \* SpecOnset: local `potential_start`
    result,          \* SpecOnset: the returned Option<f32>, None until return
    onset_pc,        \* SpecOnset: "idle", "scan" (inside the loop) or "done"
    start_str,       \* Spec: the text given for the start of the range, if any
    end_str,         \* Spec: the text given for the end of the range, if any
    start,           \* Spec: Option<TimeSpecification>, argument of create_time_range
    end,             \* Spec: Option<TimeSpecification>, argument of create_time_range
    time_range,      \* Spec: Option<TimeRange>, argument of create_spectrogram
    auto_start,      \* Spec: Option<AutoStartDetection>, argument of create_spectrogram
    resolved,        \* Spec: Some(what TimeRange::resolve returned) once it was called
    outcome,         \* Spec: how the selection of the analysis window ended
    pc,              \* Spec: "idle", "args", "parsed", "ranged", "done", "parse_error"
    window_size,     \* SpecSpectrogram: argument window_size of create_spectrogram
    overlap,         \* SpecSpectrogram: argument overlap
    min_freq,        \* SpecSpectrogram: argument min_freq
    max_freq,        \* SpecSpectrogram: argument max_freq
    hop_size,        \* SpecSpectrogram: local hop_size
    frame_start,     \* SpecSpectrogram: the loop variable i of the frame loop
    spectrogram,     \* SpecSpectrogram: local spectrogram, a sequence of frames
    log_ticks,       \* SpecSpectrogram: local log_ticks
    plot,            \* SpecSpectrogram: per frame and bin, what the drawing loop computes
    sg_pc,           \* SpecSpectrogram: "idle", "start", "frames", "done"
    rms_window_size, \* SpecWaveform: local window_size of create_waveform
    rms_values,      \* SpecWaveform: local rms_values of calculate_rms
    rms_i,           \* SpecWaveform: the loop variable i of calculate_rms
    wave_pc,         \* SpecWaveform: "idle", "start", "rms", "done"
    scale,           \* SpecDecibel: argument scale of create_waveform
    peak_points,     \* SpecDecibel: the levels of local peak_points
    db_pc,           \* SpecDecibel: "idle", "start", "done"
    duration,        \* SpecGrid: argument duration of calculate_grid_interval
    grid_interval,   \* SpecGrid: None before the call, Some(its outcome) after it
    annotation_fn,   \* SpecAnnotation: "frequency" or "time", the parser called
    annotation_str,  \* SpecAnnotation: argument s of the parser
    annotation,      \* SpecAnnotation: None before the call, Some(result) after it
    entries,         \* SpecBatch: the directory entries the walker yields, in order
    entry_index,     \* SpecBatch: how many entries the loop has taken
    reports,         \* SpecBatch: what was printed, one line per WAV file handled
    batch_pc,        \* SpecBatch: "idle", "run", "done", "panic"
    bits_per_sample, \* SpecPcm: spec.bits_per_sample
    pcm_sample,      \* SpecPcm: one decoded i32 sample, by its top 8 bits
    max_value,       \* SpecPcm: local max_value, None before it is computed
    normalized,      \* SpecPcm: the sample divided by max_value, None before
    stream,          \* SpecHeader: the bytes of the file
    cursor,          \* SpecHeader: how many bytes have been read
    header,          \* SpecHeader: local header of read_from_file
    header_result    \* SpecHeader: None while reading, then Some(Ok(header)) or Some(Err)

parseVars == <<time_str, parsed>>
bufferVars == <<samples, sample_rate>>
onsetVars == <<config, i, triggered, potential_start, result, onset_pc>>
rangeVars == <<start_str, end_str, start, end, time_range, auto_start, resolved, outcome, pc>>
spectrogramVars ==
    <<window_size, overlap, min_freq, max_freq, hop_size, frame_start,
      spectrogram, log_ticks, plot, sg_pc>>
waveVars == <<rms_window_size, rms_values, rms_i, wave_pc>>
decibelVars == <<scale, peak_points, db_pc>>
renderVars == <<spectrogramVars, waveVars, decibelVars>>
gridVars == <<duration, grid_interval>>
annotationVars == <<annotation_fn, annotation_str, annotation>>
batchVars == <<entries, entry_index, reports, batch_pc>>
pcmVars == <<bits_per_sample, pcm_sample, max_value, normalized>>
headerVars == <<stream, cursor, header, header_result>>
auxVars == <<gridVars, annotationVars, batchVars, pcmVars, headerVars>>
vars == <<parseVars, bufferVars, onsetVars, rangeVars, renderVars, auxVars>>

-----------------------------------------------------------------------------
(* Option and Result values of the Rust code.                              *)

None == [some |-> FALSE]
Some(x) == [some |-> TRUE, val |-> x]
Ok(x) == [ok |-> TRUE, val |-> x]
Err(e) == [ok |-> FALSE, err |-> e]

-----------------------------------------------------------------------------
(* f32 arithmetic and comparisons.                                         *)

Abs(x) == IF x < 0 THEN -x ELSE x

RECURSIVE Gcd(_, _)
Gcd(a, b) == IF b = 0 THEN a ELSE Gcd(b, a % b)

NaN == [n |-> 0, d |-> 0]

IsNaN(x) == x.d = 0

Rat(n, d) ==
    IF d = 0 THEN NaN
    ELSE LET g == Gcd(Abs(n), Abs(d))
             s == IF d < 0 THEN -1 ELSE 1
         IN  [n |-> s * (n \div g), d |-> s * (d \div g)]

F(n) == Rat(n, 1)

FNeg(a) == IF IsNaN(a) THEN NaN ELSE Rat(-a.n, a.d)

FAdd(a, b) == IF IsNaN(a) \/ IsNaN(b) THEN NaN ELSE Rat(a.n * b.d + b.n * a.d, a.d * b.d)

FMul(a, b) == IF IsNaN(a) \/ IsNaN(b) THEN NaN ELSE Rat(a.n * b.n, a.d * b.d)

\* a / b for b a nonzero number: the model never divides by zero.
FDiv(a, b) == IF IsNaN(a) \/ IsNaN(b) THEN NaN ELSE Rat(a.n * b.d, a.d * b.n)

FLt(a, b) == ~IsNaN(a) /\ ~IsNaN(b) /\ a.n * b.d < b.n * a.d
FLe(a, b) == ~IsNaN(a) /\ ~IsNaN(b) /\ a.n * b.d <= b.n * a.d
FGt(a, b) == FLt(b, a)
FGe(a, b) == FLe(b, a)

\* `x as usize` of a number: truncation toward zero, negative values and NaN
\* saturate to 0.
AsUsize(x) == IF IsNaN(x) \/ x.n < 0 THEN 0 ELSE x.n \div x.d

-----------------------------------------------------------------------------
(* Text: a &str is a sequence of one-character strings.                    *)

MaxLen == 4

Alphabet == {"0", "1", "6", ".", ":", "%", "-", "n", "a"}

Texts == UNION {[1..k -> Alphabet] : k \in 0..MaxLen}

DigitChars == {"0", "1", "2", "3", "4", "5", "6", "7", "8", "9"}

DigitValue(c) ==
    CASE c = "0" -> 0 [] c = "1" -> 1 [] c = "2" -> 2 [] c = "3" -> 3
      [] c = "4" -> 4 [] c = "5" -> 5 [] c = "6" -> 6 [] c = "7" -> 7
      [] c = "8" -> 8 [] c = "9" -> 9

AllDigits(s) == \A k \in 1..Len(s) : s[k] \in DigitChars

RECURSIVE DigitsValue(_)
DigitsValue(s) ==
    IF s = <<>> THEN 0
    ELSE DigitsValue(SubSeq(s, 1, Len(s) - 1)) * 10 + DigitValue(s[Len(s)])

RECURSIVE Pow10(_)
Pow10(k) == IF k = 0 THEN 1 ELSE 10 * Pow10(k - 1)

\* Position of the first c in s, 0 when there is none.
IndexOf(s, c) ==
    IF \E k \in 1..Len(s) : s[k] = c
    THEN CHOOSE k \in 1..Len(s) : s[k] = c /\ \A j \in 1..(k - 1) : s[j] # c
    ELSE 0

contains(s, c) == \E k \in 1..Len(s) : s[k] = c

ends_with(s, c) == Len(s) > 0 /\ s[Len(s)] = c

RECURSIVE trim_end_matches(_, _)
trim_end_matches(s, c) ==
    IF ends_with(s, c) THEN trim_end_matches(SubSeq(s, 1, Len(s) - 1), c) ELSE s

RECURSIVE split(_, _)
split(s, sep) ==
    LET k == IndexOf(s, sep)
    IN  IF k = 0 THEN <<s>>
        ELSE <<SubSeq(s, 1, k - 1)>> \o split(SubSeq(s, k + 1, Len(s)), sep)

ToLower(c) == CASE c = "N" -> "n" [] c = "A" -> "a" [] OTHER -> c

\* str::parse::<f32>: an optional sign, then either a decimal number with
\* at least one digit (digits, optionally a point and more digits) or,
\* case-insensitively, "nan".  Exponents and the words "inf"/"infinity" need
\* the letters e, i, f, t, y, which no text of the model contains.
parse_f32(s) ==
    LET signed == Len(s) > 0 /\ s[1] \in {"-", "+"}
        negative == Len(s) > 0 /\ s[1] = "-"
        body == IF signed THEN Tail(s) ELSE s
        dot == IndexOf(body, ".")
        ip == IF dot = 0 THEN body ELSE SubSeq(body, 1, dot - 1)
        fp == IF dot = 0 THEN <<>> ELSE SubSeq(body, dot + 1, Len(body))
        mag == Rat(DigitsValue(ip \o fp), Pow10(Len(fp)))
    IN  IF body = <<>> THEN Err("invalid float literal")
        ELSE IF AllDigits(ip) /\ AllDigits(fp) /\ Len(ip) + Len(fp) > 0
             THEN Ok(IF negative THEN FNeg(mag) ELSE mag)
        ELSE IF [k \in 1..Len(body) |-> ToLower(body[k])] = <<"n", "a", "n">>
             THEN Ok(NaN)
        ELSE Err("invalid float literal")

\* str::parse::<u32>: an optional "+", then one or more digits.  Every text
\* of the model has fewer than ten digits, so the value fits in 32 bits.
parse_u32(s) ==
    LET body == IF Len(s) > 0 /\ s[1] = "+" THEN Tail(s) ELSE s
    IN  IF body # <<>> /\ AllDigits(body)
        THEN Ok(DigitsValue(body))
        ELSE Err("invalid digit found in string")

-----------------------------------------------------------------------------
(* utils/time.rs: TimeSpecification and parse_time_specification.          *)

Seconds(s) == [kind |-> "Seconds", s |-> s]
MinutesSeconds(m, s) == [kind |-> "MinutesSeconds", m |-> m, s |-> s]
Percentage(p) == [kind |-> "Percentage", p |-> p]

parse_percentage(time_str_) ==
    LET percentage == parse_f32(trim_end_matches(time_str_, "%"))
    IN  IF ~percentage.ok THEN Err("Invalid percentage format")
        ELSE IF FLt(percentage.val, F(0)) \/ FGt(percentage.val, F(100))
             THEN Err("Percentage must be between 0 and 100")
        ELSE Ok(Percentage(FDiv(percentage.val, F(100))))

parse_minutes_seconds(time_str_) ==
    LET parts == split(time_str_, ":")
        minutes == parse_u32(parts[1])
        seconds == parse_u32(parts[2])
    IN  IF Len(parts) # 2 THEN Err("Invalid time format. Use MM:SS")
        ELSE IF ~minutes.ok THEN Err("Invalid minutes")
        ELSE IF ~seconds.ok THEN Err("Invalid seconds")
        ELSE IF seconds.val >= 60 THEN Err("Seconds must be less than 60")
        ELSE Ok(MinutesSeconds(minutes.val, seconds.val))

parse_seconds(time_str_) ==
    LET seconds == parse_f32(time_str_)
    IN  IF ~seconds.ok THEN Err("Invalid seconds")
        ELSE IF FLt(seconds.val, F(0)) THEN Err("Seconds must be positive")
        ELSE Ok(Seconds(seconds.val))

\* Mutant: the forms tried in the order mm:ss, percent, seconds.
parse_time_specification_colon_first(time_str_) ==
    IF contains(time_str_, ":") THEN parse_minutes_seconds(time_str_)
    ELSE IF ends_with(time_str_, "%") THEN parse_percentage(time_str_)
    ELSE parse_seconds(time_str_)

parse_time_specification(time_str_) ==
    IF ends_with(time_str_, "%") THEN parse_percentage(time_str_)
    ELSE IF contains(time_str_, ":") THEN parse_minutes_seconds(time_str_)
    ELSE parse_seconds(time_str_)

-----------------------------------------------------------------------------
(* utils/time.rs: TimeRange::resolve and create_time_range.  An error is   *)
(* its message with the values formatted into it.                          *)

Failure(msg, args) == [msg |-> msg, args |-> args]

TimeRange(start_, end_) == [start |-> start_, end |-> end_]

\* Mutant: a percentage taken as a number of seconds, not a share of total.
convert_to_seconds_percent_as_seconds(spec, total) ==
    CASE spec.kind = "Seconds" -> spec.s
      [] spec.kind = "MinutesSeconds" -> FAdd(FMul(F(spec.m), F(60)), F(spec.s))
      [] spec.kind = "Percentage" -> FMul(F(100), spec.p)

convert_to_seconds(spec, total) ==
    CASE spec.kind = "Seconds" -> spec.s
      [] spec.kind = "MinutesSeconds" -> FAdd(FMul(F(spec.m), F(60)), F(spec.s))
      [] spec.kind = "Percentage" -> FMul(total, spec.p)

\* Mutant: the negative-start test made before the start-before-end test.
resolve_negative_first(self, total_duration) ==
    LET start_time == convert_to_seconds(self.start, total_duration)
        end_time == convert_to_seconds(self.end, total_duration)
    IN  IF FLt(start_time, F(0))
        THEN Err(Failure("Start time must be positive", <<>>))
        ELSE IF FGe(start_time, end_time)
        THEN Err(Failure("Start time must be less than end time", <<>>))
        ELSE IF FGt(end_time, total_duration)
        THEN Err(Failure("End time ({}) exceeds audio duration ({})",
                         <<end_time, total_duration>>))
        ELSE Ok(<<start_time, end_time>>)

resolve(self, total_duration) ==
    LET start_time == convert_to_seconds(self.start, total_duration)
        end_time == convert_to_seconds(self.end, total_duration)
    IN  IF FGe(start_time, end_time)
        THEN Err(Failure("Start time must be less than end time", <<>>))
        ELSE IF FLt(start_time, F(0))
        THEN Err(Failure("Start time must be positive", <<>>))
        ELSE IF FGt(end_time, total_duration)
        THEN Err(Failure("End time ({}) exceeds audio duration ({})",
                         <<end_time, total_duration>>))
        ELSE Ok(<<start_time, end_time>>)

\* Mutant: a missing end defaults to the start of the file, not its end.
create_time_range_end_at_zero(start_, end_) ==
    IF start_.some \/ end_.some
    THEN Some(TimeRange(IF start_.some THEN start_.val ELSE Seconds(F(0)),
                        IF end_.some THEN end_.val ELSE Percentage(F(0))))
    ELSE None

create_time_range(start_, end_) ==
    IF start_.some \/ end_.some
    THEN Some(TimeRange(IF start_.some THEN start_.val ELSE Seconds(F(0)),
                        IF end_.some THEN end_.val ELSE Percentage(F(1))))
    ELSE None

-----------------------------------------------------------------------------
(* utils/detection.rs: AutoStartDetection.  Amplitudes and the threshold   *)
(* are integers in one common unit.  A buffer is a sequence indexed from   *)
(* 1, so the code's samples[k] is At(samples, k).                          *)

At(buf, k) == buf[k + 1]

\* &samples[a..b]
Slice(buf, a, b) == SubSeq(buf, a + 1, b)

RECURSIVE SumSquares(_)
SumSquares(window) ==
    IF window = <<>> THEN 0
    ELSE Head(window) * Head(window) + SumSquares(Tail(window))

\* The square of the value calculate_rms returns (the mean of the squares);
\* 0/0, for an empty window, is NaN as in the code.
calculate_rms(window) == Rat(SumSquares(window), Len(window))

\* rms > threshold, decided on the squares: sqrt is increasing, rms >= 0, and
\* a NaN rms compares false.
RmsExceeds(rms_squared, threshold) ==
    /\ ~IsNaN(rms_squared)
    /\ threshold < 0 \/ FGt(rms_squared, F(threshold * threshold))

\* Mutant: a sample of exactly 0 is on neither side.
is_zero_crossing_strict(a, b) == (a < 0 /\ b > 0) \/ (a > 0 /\ b < 0)

is_zero_crossing(a, b) == (a < 0 /\ b >= 0) \/ (a >= 0 /\ b < 0)

\* (self.min_duration * sample_rate) as usize
MinSamples(cfg, rate) == AsUsize(FMul(cfg.min_duration, F(rate)))

\* samples.len().saturating_sub(self.window_size): the end of the range of i
ScanEnd(cfg, buf) ==
    IF Len(buf) >= cfg.window_size THEN Len(buf) - cfg.window_size ELSE 0

\* rms > self.threshold for the window that starts at k
WindowExceeds(cfg, buf, k) ==
    RmsExceeds(calculate_rms(Slice(buf, k, k + cfg.window_size)), cfg.threshold)

\* The inner loop: the first j in potential_start..k with a zero crossing
\* between samples[j] and samples[j + 1], else potential_start.
RECURSIVE ZeroCrossingFrom(_, _, _, _)
ZeroCrossingFrom(j, k, p, buf) ==
    IF j >= k THEN p
    ELSE IF j + 1 < Len(buf) /\ is_zero_crossing(At(buf, j), At(buf, j + 1)) THEN j
    ELSE ZeroCrossingFrom(j + 1, k, p, buf)

\* What the triggered branch returns at position k.
OnsetTime(k, p, buf, rate) == Some(Rat(ZeroCrossingFrom(p, k, p, buf), rate))

\* The loop of detect_start_time from position k on, as one function.
RECURSIVE DetectFrom(_, _, _, _, _, _)
DetectFrom(k, trig, p, cfg, buf, rate) ==
    IF k >= ScanEnd(cfg, buf) THEN None
    ELSE IF ~trig /\ WindowExceeds(cfg, buf, k)
         THEN DetectFrom(k + 1, TRUE, k, cfg, buf, rate)
    ELSE IF trig /\ k - p >= MinSamples(cfg, rate)
         THEN OnsetTime(k, p, buf, rate)
    ELSE DetectFrom(k + 1, trig, p, cfg, buf, rate)

detect_start_time(cfg, buf, rate) == DetectFrom(0, FALSE, 0, cfg, buf, rate)

-----------------------------------------------------------------------------
(* command/spectrum.rs, create_spectrogram (and, line for line the same,   *)
(* command/waveform.rs, create_waveform): the analysis window.             *)

\* samples.len() as f32 / sample_rate
TotalDuration(buf, rate) == FDiv(F(Len(buf)), F(rate))

\* (time * sample_rate) as usize
SampleIndex(time, rate) == AsUsize(FMul(time, F(rate)))

\* From the (start_time, end_time) chosen, or the error returned instead, to
\* the slice samples[start_sample..end_sample]; the slice panics when
\* start_sample > end_sample or end_sample > samples.len().
SliceWindow(chosen, buf, rate) ==
    IF ~chosen.ok THEN [status |-> "error", err |-> chosen.err]
    ELSE LET start_sample == SampleIndex(chosen.val[1], rate)
             end_sample == SampleIndex(chosen.val[2], rate)
         IN  IF start_sample > end_sample \/ end_sample > Len(buf)
             THEN [status |-> "panic", start_time |-> chosen.val[1],
                   end_time |-> chosen.val[2], start_sample |-> start_sample,
                   end_sample |-> end_sample]
             ELSE [status |-> "window", start_time |-> chosen.val[1],
                   end_time |-> chosen.val[2], start_sample |-> start_sample,
                   end_sample |-> end_sample,
                   samples |-> Slice(buf, start_sample, end_sample)]

\* .resolve(total_duration).map_or(total_duration, |(_, end)| end)
EndOrTotal(res, total_duration) == IF res.ok THEN res.val[2] ELSE total_duration

-----------------------------------------------------------------------------
(* command/spectrum.rs, create_spectrogram: the short-time Fourier         *)
(* transform.  Samples are integers (multiples of full scale).  The        *)
(* transform is computed exactly for the window sizes N at which           *)
(* cos(2 pi m / N) is rational and sin(2 pi m / N) is a rational multiple  *)
(* of one square root; for another N the squared amplitude of a frame that *)
(* is not all zero is left as an uninterpreted term of the frame and bin.  *)
(* A level 20 log10(a) is kept as the term of its argument squared.        *)

\* (window_size as f32 * (1.0 - overlap)) as usize
HopSize(size, ovl) == AsUsize(FMul(F(size), FAdd(F(1), FNeg(ovl))))

ExactSizes == {1, 2, 3, 4}

\* 2 cos(2 pi m / N) for m = 0 .. N - 1
TwiceCos(N) ==
    CASE N = 1 -> <<2>>
      [] N = 2 -> <<2, -2>>
      [] N = 3 -> <<2, -1, -1>>
      [] N = 4 -> <<2, 0, -2, 0>>

\* 2 sin(2 pi m / N) / sqrt(Radicand(N)) for m = 0 .. N - 1
TwiceSin(N) ==
    CASE N = 1 -> <<0>>
      [] N = 2 -> <<0, 0>>
      [] N = 3 -> <<0, 1, -1>>
      [] N = 4 -> <<0, 2, 0, -2>>

Radicand(N) == IF N = 3 THEN 3 ELSE 1

Cos(m, N) == Rat(TwiceCos(N)[(m % N) + 1], 2)

SinPart(m, N) == Rat(TwiceSin(N)[(m % N) + 1], 2)

RECURSIVE FSum(_)
FSum(xs) == IF xs = <<>> THEN F(0) ELSE FAdd(Head(xs), FSum(Tail(xs)))

\* 0.5 * (1.0 - (2.0 * PI * i as f32 / window_size as f32).cos())
window(N) == [k \in 1..N |-> FMul(Rat(1, 2), FAdd(F(1), FNeg(Cos(k - 1, N))))]

\* Complex::new(s * w, 0.0) for the samples of one frame
WindowedFrame(frame) ==
    [k \in 1..Len(frame) |-> FMul(F(frame[k]), window(Len(frame))[k])]

\* fft.process then c.norm(), squared: |sum_n buffer[n] e^(-2 pi i n bin / N)|^2
NormSquared(buffer, bin) ==
    LET N == Len(buffer)
        re == FSum([k \in 1..N |-> FMul(buffer[k], Cos((k - 1) * bin, N))])
        im == FSum([k \in 1..N |-> FMul(buffer[k], SinPart((k - 1) * bin, N))])
    IN  FAdd(FMul(re, re), FMul(F(Radicand(N)), FMul(im, im)))

\* (c.norm() / window_size as f32) squared
AmplitudeSquared(frame, bin) ==
    LET N == Len(frame)
    IN  IF \A k \in 1..N : frame[k] = 0 THEN F(0)
        ELSE IF N \in ExactSizes
        THEN FDiv(NormSquared(WindowedFrame(frame), bin), F(N * N))
        ELSE [frame |-> frame, bin |-> bin]

min_db == -128

max_db == 0

\* The value x dB.
Level(x) == [kind |-> "dB", db |-> x]

\* 20.0 * amplitude.log10(): minus infinity when the amplitude is 0.
Log10Level(amplitude_squared) == [kind |-> "20log10", squared |-> amplitude_squared]

IsNegInfinity(level) == level.kind = "20log10" /\ level.squared = F(0)

\* bin as f32 * freq_resolution, freq_resolution = sample_rate / window_size
BinFrequency(bin, rate, N) == FMul(F(bin), FDiv(F(rate), F(N)))

InBand(freq, lo, hi) == FGe(freq, lo) /\ FLe(freq, hi)

\* The spectrum of one frame: buffer[..window_size / 2], bin by bin.
Spectrum(frame, rate, lo, hi) ==
    LET N == Len(frame)
    IN  [b \in 1..(N \div 2) |->
            IF InBand(BinFrequency(b - 1, rate, N), lo, hi)
            THEN Log10Level(AmplitudeSquared(frame, b - 1))
            ELSE Level(min_db)]

\* total_time / total_frames as f32, total_time = samples.len() as f32 / sample_rate
TimePerFrame(buf, rate, total_frames) == FDiv(TotalDuration(buf, rate), F(total_frames))

\* frame as f32 * time_per_frame
FrameTime(frame, buf, rate, total_frames) ==
    FMul(F(frame), TimePerFrame(buf, rate, total_frames))

\* (bin as f32 * nyquist_freq) / freq_bins as f32, with nyquist_freq =
\* sample_rate / 2.0 and freq_bins = window_size / 2
RenderFrequency(bin, rate, N) == FDiv(FMul(F(bin), FDiv(F(rate), F(2))), F(N \div 2))

\* ((power - min_db) / (max_db - min_db)).max(0.0).min(1.0): 0 for the level
\* min_db and for minus infinity, else the term of the level it clamps.
NormalizedPower(power) ==
    IF IsNegInfinity(power) THEN F(0)
    ELSE IF power.kind = "dB"
    THEN LET x == Rat(power.db - min_db, max_db - min_db)
         IN  IF FLt(x, F(0)) THEN F(0) ELSE IF FGt(x, F(1)) THEN F(1) ELSE x
    ELSE [kind |-> "clamped", power |-> power]

\* The loop `while freq <= max_freq` that fills ticks, from freq on.
RECURSIVE TicksFrom(_, _, _)
TicksFrom(freq, lo, hi) ==
    IF ~FLe(freq, hi) THEN <<>>
    ELSE LET twice == FMul(freq, F(2))
             five == FMul(freq, F(5))
             pushed == IF FGe(freq, lo)
                       THEN <<freq>>
                            \o (IF FLe(twice, hi) /\ FGe(twice, lo) THEN <<twice>> ELSE <<>>)
                            \o (IF FLe(five, hi) /\ FGe(five, lo) THEN <<five>> ELSE <<>>)
                       ELSE <<>>
         IN  pushed \o TicksFrom(FMul(freq, F(10)), lo, hi)

\* One element put into an ascending list, after the elements not above it.
RECURSIVE InsertTick(_, _)
InsertTick(x, sorted) ==
    IF sorted = <<>> THEN <<x>>
    ELSE IF FLt(x, Head(sorted)) THEN <<x>> \o sorted
    ELSE <<Head(sorted)>> \o InsertTick(x, Tail(sorted))

\* ticks.sort_by(|a, b| a.partial_cmp(b).unwrap())
RECURSIVE SortTicks(_)
SortTicks(ticks) ==
    IF ticks = <<>> THEN <<>>
    ELSE InsertTick(ticks[Len(ticks)], SortTicks(SubSeq(ticks, 1, Len(ticks) - 1)))

LogTicks(lo, hi) == SortTicks(TicksFrom(F(10), lo, hi))

\* The drawing loop: for every frame its time, for every bin its frequency,
\* whether that frequency passes the band test, and the clamped power.
Plot(frames, buf, rate, N, lo, hi) ==
    [f \in 1..Len(frames) |->
        [time |-> FrameTime(f - 1, buf, rate, Len(frames)),
         cells |-> [b \in 1..Len(frames[f]) |->
                      [freq |-> RenderFrequency(b - 1, rate, N),
                       in_band |-> InBand(RenderFrequency(b - 1, rate, N), lo, hi),
                       normalized_power |-> NormalizedPower(frames[f][b])]]]]

-----------------------------------------------------------------------------
(* command/waveform.rs: the RMS track and the decibel scale.  In the RMS   *)
(* track samples are integers in one common unit and an RMS value is kept  *)
(* as its square, the mean of the squares.                                 *)

\* Mutant: the window width rounded to the nearest integer.
WaveWindowSizeRounded(rate) == AsUsize(FAdd(FMul(F(rate), Rat(2, 100)), Rat(1, 2)))

\* (sample_rate * 0.02) as usize
WaveWindowSize(rate) == AsUsize(FMul(F(rate), Rat(2, 100)))

\* let start = if i < window_size / 2 { 0 } else { i - window_size / 2 }
RmsWindowStart(k, size) == IF k < size \div 2 THEN 0 ELSE k - size \div 2

\* Mutant: the window is cut at the end of the buffer one sample early.
RmsWindowEndShort(k, size, len) ==
    IF k + size \div 2 < len - 1 THEN k + size \div 2 ELSE len - 1

\* let end = (i + window_size / 2).min(samples.len())
RmsWindowEnd(k, size, len) == IF k + size \div 2 < len THEN k + size \div 2 ELSE len

\* (sum_squares / (end - start) as f32).sqrt(), squared; 0/0 is NaN.
WindowRms(buf, k, size) ==
    LET start_ == RmsWindowStart(k, size)
        end_ == RmsWindowEnd(k, size, Len(buf))
    IN  Rat(SumSquares(Slice(buf, start_, end_)), end_ - start_)

FAbs(a) == IF IsNaN(a) THEN NaN ELSE Rat(Abs(a.n), a.d)

db_floor == -60

\* Mutant: the sign of the amplitude is kept.
amplitude_to_db_signed(amplitude) ==
    IF FLt(amplitude, Rat(1, 1000000)) THEN Level(db_floor)
    ELSE IF FGt(amplitude, Rat(1, 1000))
    THEN Log10Level(FMul(amplitude, amplitude))
    ELSE Level(db_floor)

\* 20 log10(x) > -60 exactly when x > 1/1000; f32::max returns the other
\* operand when one is NaN.
amplitude_to_db(amplitude) ==
    LET magnitude == FAbs(amplitude)
    IN  IF FLt(magnitude, Rat(1, 1000000)) THEN Level(db_floor)
        ELSE IF FGt(magnitude, Rat(1, 1000))
        THEN Log10Level(FMul(magnitude, magnitude))
        ELSE Level(db_floor)

-----------------------------------------------------------------------------
(* command/waveform.rs, calculate_grid_interval.                           *)

intervals ==
    <<Rat(1, 1000), Rat(2, 1000), Rat(5, 1000),
      Rat(1, 100), Rat(2, 100), Rat(5, 100),
      Rat(1, 10), Rat(2, 10), Rat(5, 10),
      F(1), F(2), F(5),
      F(10), F(20), F(30),
      F(60), F(120), F(300)>>

TARGET_GRID_COUNT == 10

\* (a - ideal_interval).abs()
Diff(a, ideal_interval) == FAbs(FAdd(a, FNeg(ideal_interval)))

\* diff_a.partial_cmp(&diff_b): None when either is NaN
partial_cmp(a, b) ==
    IF IsNaN(a) \/ IsNaN(b) THEN None
    ELSE Some(IF FLt(a, b) THEN "Less" ELSE IF FGt(a, b) THEN "Greater" ELSE "Equal")

\* Iterator::min_by over intervals[k..], best being the minimum so far: the
\* later element replaces it only when the comparison says Greater, and
\* unwrap() panics on a comparison that is None.
RECURSIVE MinByFrom(_, _, _)
MinByFrom(k, best, ideal_interval) ==
    IF k > Len(intervals) THEN [status |-> "returned", value |-> best]
    ELSE LET ordering == partial_cmp(Diff(best, ideal_interval),
                                     Diff(intervals[k], ideal_interval))
         IN  IF ~ordering.some THEN [status |-> "panic"]
             ELSE MinByFrom(k + 1,
                            IF ordering.val = "Greater" THEN intervals[k] ELSE best,
                            ideal_interval)

calculate_grid_interval(duration_) ==
    MinByFrom(2, intervals[1], FDiv(duration_, F(TARGET_GRID_COUNT)))

-----------------------------------------------------------------------------
(* command/spectrum.rs, parse_frequency_annotation, and                    *)
(* command/waveform.rs, parse_time_annotation.  A String is a Text.        *)

parse_frequency_annotation(s) ==
    LET parts == split(s, ":")
        freq == parse_f32(parts[1])
    IN  IF Len(parts) # 2 THEN Err("Annotation format should be 'frequency:label'")
        ELSE IF ~freq.ok THEN Err("Invalid frequency value")
        ELSE Ok(<<freq.val, parts[2]>>)

\* Mutant: the text split once, at its first ':'.
parse_time_annotation_split_once(s) ==
    LET k == IndexOf(s, ":")
        time == parse_f32(SubSeq(s, 1, k - 1))
    IN  IF k = 0 THEN Err("Annotation format should be 'time:label'")
        ELSE IF ~time.ok THEN Err("Invalid time value")
        ELSE Ok(<<time.val, SubSeq(s, k + 1, Len(s))>>)

parse_time_annotation(s) ==
    LET parts == split(s, ":")
        time == parse_f32(parts[1])
    IN  IF Len(parts) # 2 THEN Err("Annotation format should be 'time:label'")
        ELSE IF ~time.ok THEN Err("Invalid time value")
        ELSE Ok(<<time.val, parts[2]>>)

-----------------------------------------------------------------------------
(* Integer PCM normalisation: command/spectrum.rs and command/waveform.rs, *)
(* create_spectrogram / create_waveform, and utils/detection.rs,           *)
(* detect_peak_level:                                                      *)
(*     let max_value = (1 << (bits - 1)) as f32;                           *)
(*     sample as f32 / max_value                                           *)
(* The literal 1 is an i32.  An f32 of this computation is kept as         *)
(* [m, e], the value m * 2^e with m odd (zero is [0, 0]): every i32        *)
(* converts to such a value and division by a power of two is exact.       *)

I32_MAX == 2147483647

I32_MIN == (-I32_MAX) - 1

RECURSIVE Pow2(_)
Pow2(k) == IF k = 0 THEN 1 ELSE 2 * Pow2(k - 1)

\* x * 2 in i32, the bits beyond 32 discarded
wrapping_double(x) ==
    IF x > I32_MAX \div 2 THEN 2 * ((x - I32_MAX) - 1)
    ELSE IF x < I32_MIN \div 2 THEN 2 * ((x + I32_MAX) + 1)
    ELSE 2 * x

\* x << k in i32 for 0 <= k < 32
RECURSIVE shl(_, _)
shl(x, k) == IF k = 0 THEN x ELSE shl(wrapping_double(x), k - 1)

RECURSIVE F32(_, _)
F32(m, e) ==
    IF m = 0 THEN [m |-> 0, e |-> 0]
    ELSE IF m % 2 = 0 THEN F32(m \div 2, e + 1)
    ELSE [m |-> m, e |-> e]

\* The position of the leading bit of a > 0.
RECURSIVE Log2(_)
Log2(a) == IF a < 2 THEN 0 ELSE 1 + Log2(a \div 2)

\* x as f32: exact below 2^24 in magnitude, else rounded to 24 significant
\* bits, ties to even.
i32_as_f32(x) ==
    IF x = I32_MIN THEN F32(-1, 31)
    ELSE LET a == Abs(x)
             sign == IF x < 0 THEN -1 ELSE 1
         IN  IF a < Pow2(24) THEN F32(x, 0)
             ELSE LET e == Log2(a) - 23
                      ulp == Pow2(e)
                      q == a \div ulp
                      r == a % ulp
                      up == 2 * r > ulp \/ (2 * r = ulp /\ q % 2 = 1)
                  IN  F32(sign * (IF up THEN q + 1 ELSE q), e)

\* a / b in f32 for b a power of two, positive or negative: exact.
div_f32(a, b) == F32(a.m * b.m, a.e - b.e)

\* (1 << (bits - 1)) as f32
pcm_max_value(bits) == i32_as_f32(shl(1, bits - 1))

\* sample as f32 / max_value
normalize(sample, max_value_) == div_f32(i32_as_f32(sample), max_value_)

-----------------------------------------------------------------------------
(* utils/wave_header.rs, WavHeader::read_from_file.  The file is a         *)
(* sequence of bytes and a position; a read takes the bytes at the         *)
(* position or fails when fewer are left.                                  *)

\* The reads of read_from_file, in the order of the code.
Reads ==
    << [field |-> "chunk_id", size |-> 4, kind |-> "bytes"],
       [field |-> "chunk_size", size |-> 4, kind |-> "u32"],
       [field |-> "format", size |-> 4, kind |-> "bytes"],
       [field |-> "subchunk1_id", size |-> 4, kind |-> "bytes"],
       [field |-> "subchunk1_size", size |-> 4, kind |-> "u32"],
       [field |-> "audio_format", size |-> 2, kind |-> "u16"],
       [field |-> "num_channels", size |-> 2, kind |-> "u16"],
       [field |-> "sample_rate", size |-> 4, kind |-> "u32"],
       [field |-> "byte_rate", size |-> 4, kind |-> "u32"],
       [field |-> "block_align", size |-> 2, kind |-> "u16"],
       [field |-> "bits_per_sample", size |-> 2, kind |-> "u16"] >>

\* The position of the file before the k-th read.
RECURSIVE ReadOffset(_)
ReadOffset(k) == IF k = 1 THEN 0 ELSE ReadOffset(k - 1) + Reads[k - 1].size

\* The read that is next at position pos; Len(Reads) + 1 after the last.
ReadIndex(pos) == CHOOSE k \in 1..(Len(Reads) + 1) : ReadOffset(k) = pos

\* file.read_exact(&mut buf) with buf of n bytes
read_exact(s, pos, n) ==
    IF pos + n > Len(s) THEN Err("UnexpectedEof") ELSE Ok(SubSeq(s, pos + 1, pos + n))

\* Mutant: the most significant byte first.
read_u16_big_endian(s, pos) ==
    LET buf == read_exact(s, pos, 2)
    IN  IF ~buf.ok THEN buf ELSE Ok(256 * buf.val[1] + buf.val[2])

\* file.read_u16::<LittleEndian>()
read_u16(s, pos) ==
    LET buf == read_exact(s, pos, 2)
    IN  IF ~buf.ok THEN buf ELSE Ok(buf.val[1] + 256 * buf.val[2])

\* file.read_u32::<LittleEndian>()
read_u32(s, pos) ==
    LET buf == read_exact(s, pos, 4)
    IN  IF ~buf.ok THEN buf
        ELSE Ok(buf.val[1] + 256 * buf.val[2] + 65536 * buf.val[3] + 16777216 * buf.val[4])

\* The k-th read at position pos.
ReadField(s, pos, k) ==
    IF Reads[k].kind = "bytes" THEN read_exact(s, pos, Reads[k].size)
    ELSE IF Reads[k].kind = "u32" THEN read_u32(s, pos)
    ELSE read_u16(s, pos)

-----------------------------------------------------------------------------
(* SpecParse: parse_time_specification applied to every text of at most    *)
(* MaxLen characters over Alphabet.                                        *)

ParseIdle == time_str = <<>> /\ parsed = None

BufferIdle == samples = <<>> /\ sample_rate = 1

OnsetIdle ==
    /\ config = [threshold |-> 0, window_size |-> 0, min_duration |-> F(0)]
    /\ i = 0
    /\ triggered = FALSE
    /\ potential_start = 0
    /\ result = None
    /\ onset_pc = "idle"

RangeIdle ==
    /\ start_str = None /\ end_str = None
    /\ start = None /\ end = None
    /\ time_range = None
    /\ auto_start = None
    /\ resolved = None
    /\ outcome = None
    /\ pc = "idle"

SpectrogramIdle ==
    /\ window_size = 0 /\ overlap = F(0)
    /\ min_freq = F(0) /\ max_freq = F(0)
    /\ hop_size = 0
    /\ frame_start = 0
    /\ spectrogram = <<>>
    /\ log_ticks = <<>>
    /\ plot = <<>>
    /\ sg_pc = "idle"

WaveformIdle ==
    /\ rms_window_size = 0
    /\ rms_values = <<>>
    /\ rms_i = 0
    /\ wave_pc = "idle"

DecibelIdle == scale = "Amplitude" /\ peak_points = <<>> /\ db_pc = "idle"

RenderIdle == SpectrogramIdle /\ WaveformIdle /\ DecibelIdle

\* The WavHeader that read_from_file starts from: every field zero.
EmptyHeader ==
    [chunk_id |-> <<0, 0, 0, 0>>, chunk_size |-> 0, format |-> <<0, 0, 0, 0>>,
     subchunk1_id |-> <<0, 0, 0, 0>>, subchunk1_size |-> 0, audio_format |-> 0,
     num_channels |-> 0, sample_rate |-> 0, byte_rate |-> 0, block_align |-> 0,
     bits_per_sample |-> 0]

GridIdle == duration = F(0) /\ grid_interval = None

AnnotationIdle == annotation_fn = "time" /\ annotation_str = <<>> /\ annotation = None

BatchIdle == entries = <<>> /\ entry_index = 0 /\ reports = <<>> /\ batch_pc = "idle"

PcmIdle == bits_per_sample = 16 /\ pcm_sample = 0 /\ max_value = None /\ normalized = None

HeaderIdle == stream = <<>> /\ cursor = 0 /\ header = EmptyHeader /\ header_result = None

AuxIdle == GridIdle /\ AnnotationIdle /\ BatchIdle /\ PcmIdle /\ HeaderIdle

InitParse ==
    /\ time_str \in Texts
    /\ parsed = None
    /\ BufferIdle
    /\ OnsetIdle
    /\ RangeIdle
    /\ RenderIdle
    /\ AuxIdle

ParseText ==
    /\ parsed = None
    /\ parsed' = Some(parse_time_specification(time_str))
    /\ UNCHANGED <<time_str, auxVars, bufferVars, onsetVars, rangeVars, renderVars>>

NextParse == ParseText

SpecParse == InitParse /\ [][NextParse]_vars

-----------------------------------------------------------------------------
(* Claims about parse_time_specification, checked under SpecParse.         *)

Parsed == parsed.some

PercentErrors == {"Invalid percentage format", "Percentage must be between 0 and 100"}

MinutesSecondsErrors ==
    {"Invalid time format. Use MM:SS", "Invalid minutes", "Invalid seconds",
     "Seconds must be less than 60"}

SecondsErrors == {"Invalid seconds", "Seconds must be positive"}

EndsInPercent == Len(time_str) > 0 /\ time_str[Len(time_str)] = "%"

HasColon == \E k \in 1..Len(time_str) : time_str[k] = ":"

\* The outcome is that of one form: a value of its variant or one of its errors.
OfForm(kind, errors) ==
    IF parsed.val.ok THEN parsed.val.val.kind = kind ELSE parsed.val.err \in errors

\* C5: exactly one form is selected, in the order percent, mm:ss, seconds: a
\* text ending in '%' is a percentage even if it contains ':', any other
\* text containing ':' is minutes:seconds, everything else is seconds; when
\* the selected form fails, the parse fails with that form's error.
C5_FirstMatchingFormWins ==
    Parsed =>
        IF EndsInPercent THEN OfForm("Percentage", PercentErrors)
        ELSE IF HasColon THEN OfForm("MinutesSeconds", MinutesSecondsErrors)
        ELSE OfForm("Seconds", SecondsErrors)

\* C5 witness: a text with a ':' that ends in '%' was taken as a percentage
\* and failed as one.
C5_Witness ==
    /\ Parsed /\ EndsInPercent /\ HasColon
    /\ parsed.val = Err("Invalid percentage format")

\* The text is exactly two runs of digits separated by one ':' (an unsigned
\* integer may carry a leading '+').
TwoUnsignedIntegers ==
    \E k \in 1..Len(time_str) :
        /\ time_str[k] = ":"
        /\ \A m \in 1..Len(time_str) : m # k =>
               \/ time_str[m] \in DigitChars
               \/ time_str[m] = "+" /\ m \in {1, k + 1}
        /\ \E m \in 1..(k - 1) : time_str[m] \in DigitChars
        /\ \E m \in (k + 1)..Len(time_str) : time_str[m] \in DigitChars

\* C6: every TimeSpecification returned satisfies the range rule of its
\* variant: Percentage(p) has 0 <= p <= 1, MinutesSeconds(m, s) comes from
\* exactly two colon-separated unsigned integers with s < 60, Seconds(s) has
\* a numeric s >= 0.
C6_ParsedValueInRange ==
    (Parsed /\ parsed.val.ok) =>
        LET spec == parsed.val.val
        IN  /\ spec.kind = "Percentage" => FLe(F(0), spec.p) /\ FLe(spec.p, F(1))
            /\ spec.kind = "MinutesSeconds" =>
                   spec.m >= 0 /\ spec.s >= 0 /\ spec.s < 60 /\ TwoUnsignedIntegers
            /\ spec.kind = "Seconds" => FGe(spec.s, F(0))

-----------------------------------------------------------------------------
(* SpecOnset: detect_start_time run one loop iteration at a time over      *)
(* every buffer of at most MaxSamples samples.                             *)

MaxSamples == 6

MaxWindow == 3

SampleValues == {-2, 0, 1}

Buffers == UNION {[1..k -> SampleValues] : k \in 0..MaxSamples}

Thresholds == {0, 1}

MinDurations == {F(0), Rat(15, 1000)}

SampleRates == {100, 200}

Configs ==
    [threshold : Thresholds, window_size : 0..MaxWindow, min_duration : MinDurations]

InitOnset ==
    /\ ParseIdle
    /\ AuxIdle
    /\ RangeIdle
    /\ RenderIdle
    /\ samples \in Buffers
    /\ sample_rate \in SampleRates
    /\ config \in Configs
    /\ i = 0
    /\ triggered = FALSE
    /\ potential_start = 0
    /\ result = None
    /\ onset_pc = "scan"

InLoop == onset_pc = "scan" /\ i < ScanEnd(config, samples)

\* if !triggered && rms > self.threshold
ScanTrigger ==
    /\ InLoop
    /\ ~triggered /\ WindowExceeds(config, samples, i)
    /\ triggered' = TRUE
    /\ potential_start' = i
    /\ i' = i + 1
    /\ UNCHANGED <<parseVars, auxVars, bufferVars, rangeVars, renderVars, config, result, onset_pc>>

\* else if triggered, with i - potential_start >= min_samples: return
ScanReturn ==
    /\ InLoop
    /\ ~(~triggered /\ WindowExceeds(config, samples, i))
    /\ triggered /\ i - potential_start >= MinSamples(config, sample_rate)
    /\ result' = OnsetTime(i, potential_start, samples, sample_rate)
    /\ onset_pc' = "done"
    /\ UNCHANGED <<parseVars, auxVars, bufferVars, rangeVars, renderVars, config, i, triggered, potential_start>>

\* Mutant: a window at or below the threshold sends the detector back to idle.
ScanAdvanceOrReidle ==
    /\ InLoop
    /\ ~(~triggered /\ WindowExceeds(config, samples, i))
    /\ ~(triggered /\ i - potential_start >= MinSamples(config, sample_rate))
    /\ i' = i + 1
    /\ triggered' = (triggered /\ WindowExceeds(config, samples, i))
    /\ UNCHANGED <<parseVars, auxVars, bufferVars, rangeVars, renderVars, config, potential_start, result, onset_pc>>

\* neither branch acts: next iteration
ScanAdvance ==
    /\ InLoop
    /\ ~(~triggered /\ WindowExceeds(config, samples, i))
    /\ ~(triggered /\ i - potential_start >= MinSamples(config, sample_rate))
    /\ i' = i + 1
    /\ UNCHANGED <<parseVars, auxVars, bufferVars, rangeVars, renderVars, config, triggered, potential_start, result, onset_pc>>

\* Mutant: at the end of the buffer a pending candidate is returned.
ScanExhaustedReturnsCandidate ==
    /\ onset_pc = "scan" /\ i >= ScanEnd(config, samples)
    /\ result' = (IF triggered THEN Some(Rat(potential_start, sample_rate)) ELSE None)
    /\ onset_pc' = "done"
    /\ UNCHANGED <<parseVars, auxVars, bufferVars, rangeVars, renderVars, config, i, triggered, potential_start>>

\* the range is exhausted: None
ScanExhausted ==
    /\ onset_pc = "scan" /\ i >= ScanEnd(config, samples)
    /\ result' = None
    /\ onset_pc' = "done"
    /\ UNCHANGED <<parseVars, auxVars, bufferVars, rangeVars, renderVars, config, i, triggered, potential_start>>

NextOnset == ScanTrigger \/ ScanReturn \/ ScanAdvance \/ ScanExhausted

SpecOnset == InitOnset /\ [][NextOnset]_vars

\* The loop run step by step returns what the loop as a function returns.
OnsetStepsAgree ==
    onset_pc = "done" => result = detect_start_time(config, samples, sample_rate)

-----------------------------------------------------------------------------
(* Claims about the onset detector, checked under SpecOnset.               *)

\* The mean of the squares of the window_size samples from position k is
\* above the square of the threshold (thresholds are >= 0 in Thresholds).
RmsAbove(k) ==
    /\ config.window_size > 0
    /\ SumSquares(SubSeq(samples, k + 1, k + config.window_size))
           > config.threshold * config.threshold * config.window_size

\* The window positions the scan examines.
Examined == 0..(Len(samples) - config.window_size - 1)

\* floor(min_duration * sample_rate), from the rational min_duration
MinSamplesOf == (config.min_duration.n * sample_rate) \div config.min_duration.d

\* samples is k zero samples followed by one or more samples of one constant
\* amplitude whose magnitude is above the threshold.
ZerosThenConstant(k) ==
    /\ k < Len(samples)
    /\ \A m \in 1..k : samples[m] = 0
    /\ \A m \in (k + 1)..Len(samples) : samples[m] = samples[k + 1]
    /\ Abs(samples[k + 1]) > config.threshold

\* C7: for a buffer of k zero samples followed by samples of constant
\* amplitude above the threshold, a returned onset time t satisfies
\* t >= k / sample_rate (the onset is never placed before the signal).
C7_OnsetNotBeforeSignal ==
    (onset_pc = "done" /\ result.some) =>
        \A k \in 0..Len(samples) :
            ZerosThenConstant(k) => FGe(result.val, Rat(k, sample_rate))

\* C8: detect_start_time returns None whenever no examined window has RMS
\* strictly above the threshold (so for an all-zero buffer with threshold > 0
\* and for a buffer not longer than window_size), and whenever the detector
\* triggered at p but the scan ended before a position i with
\* i - p >= min_samples was examined.
C8_NoneWhenNoSustainedOnset ==
    onset_pc = "done" =>
        /\ (\A k \in Examined : ~RmsAbove(k)) => result = None
        /\ (\A m \in 1..Len(samples) : samples[m] = 0) /\ config.threshold > 0
               => result = None
        /\ Len(samples) <= config.window_size => result = None
        /\ \A p \in Examined :
               ( /\ RmsAbove(p)
                 /\ \A k \in 0..(p - 1) : ~RmsAbove(k)
                 /\ \A k \in Examined : k > p => k - p < MinSamplesOf )
               => result = None

\* C8 witness: a finished scan that had triggered and still returned None.
C8_Witness ==
    /\ onset_pc = "done" /\ triggered /\ result = None
    /\ potential_start + 1 < Len(samples) - config.window_size

\* C9: once triggered, the flag stays set and potential_start never changes,
\* whatever the RMS of later windows; the scan returns a time exactly when it
\* is at a position i, already triggered, with i - potential_start >=
\* min_samples, and never otherwise.
C9_NoReturnToIdle ==
    [][ /\ triggered => (triggered' /\ potential_start' = potential_start)
        /\ (onset_pc = "scan" /\ onset_pc' = "done" /\ result'.some)
               => (triggered /\ i - potential_start >= MinSamplesOf)
        /\ ( /\ onset_pc = "scan" /\ triggered
             /\ i \in Examined /\ i - potential_start >= MinSamplesOf )
               => (onset_pc' = "done" /\ result'.some)
      ]_vars

\* C9 witness: the scan is past a window below the threshold and is still
\* triggered at the original potential_start.
C9_Witness ==
    /\ onset_pc = "scan" /\ triggered
    /\ i - 1 > potential_start
    /\ ~RmsAbove(i - 1)

OppositeSign(a, b) == (a >= 0 /\ b < 0) \/ (b >= 0 /\ a < 0)

\* The positions j in [potential_start, i) with a sign change to j + 1.
Crossings ==
    {j \in potential_start..(i - 1) :
        j + 2 <= Len(samples) /\ OppositeSign(samples[j + 1], samples[j + 2])}

\* C10: on success at position i after triggering at potential_start the
\* returned index is the smallest j in [potential_start, i) with samples[j]
\* and samples[j+1] of opposite sign, or potential_start when there is none;
\* the returned time is that index over sample_rate, so it lies in
\* [potential_start, i) / sample_rate.
C10_ReturnsFirstZeroCrossing ==
    (onset_pc = "done" /\ result.some) =>
        LET idx == IF Crossings = {} THEN potential_start
                   ELSE CHOOSE j \in Crossings : \A m \in Crossings : j <= m
        IN  /\ result.val = Rat(idx, sample_rate)
            /\ potential_start <= idx /\ idx < i
            /\ \A j \in potential_start..(i - 1) : j + 2 <= Len(samples)

\* C10 witness: a success whose zero crossing lies after potential_start.
C10_Witness ==
    /\ onset_pc = "done" /\ result.some
    /\ Crossings # {}
    /\ potential_start \notin Crossings

-----------------------------------------------------------------------------
(* Spec: from the texts of a requested range to the analysis window of one *)
(* file.  The library is entered either with texts, which are parsed, or   *)
(* with TimeSpecification values built by the caller.                      *)

T_50pct == <<"5", "0", "%">>
T_1m30 == <<"1", ":", "3", "0">>
T_2p5 == <<"2", ".", "5">>
T_nan == <<"n", "a", "n">>
T_0 == <<"0">>
T_12 == <<"1", "2">>
T_120pct == <<"1", "2", "0", "%">>

ArgTexts == {T_50pct, T_1m30, T_2p5, T_nan, T_0, T_12, T_120pct}

SpecValues ==
    { Seconds(F(-1)), Seconds(F(0)), Seconds(F(2)), Seconds(F(12)), Seconds(NaN),
      MinutesSeconds(0, 5), MinutesSeconds(1, 30),
      Percentage(F(0)), Percentage(Rat(1, 2)), Percentage(F(1)) }

Option(S) == {None} \cup {Some(x) : x \in S}

Silence(len) == [k \in 1..len |-> 0]

\* Silence with alternating -2, 1 at positions from + 1 .. to.
Burst(len, from, to) ==
    [k \in 1..len |-> IF from < k /\ k <= to THEN (IF k % 2 = 0 THEN -2 ELSE 1) ELSE 0]

Recordings ==
    { [samples |-> <<>>, sample_rate |-> 1],
      [samples |-> Silence(10), sample_rate |-> 1],
      [samples |-> Burst(10, 3, 9), sample_rate |-> 1],
      [samples |-> Burst(5, 1, 4), sample_rate |-> 2],
      [samples |-> Burst(100, 40, 60), sample_rate |-> 1] }

AutoConfigs ==
    {[threshold |-> 1, window_size |-> 2, min_duration |-> F(1)]}

InitRecording ==
    /\ \E rec \in Recordings : samples = rec.samples /\ sample_rate = rec.sample_rate
    /\ auto_start \in Option(AutoConfigs)
    /\ time_range = None
    /\ resolved = None
    /\ outcome = None
    /\ ParseIdle
    /\ AuxIdle
    /\ OnsetIdle
    /\ RenderIdle

InitFromText ==
    /\ start_str \in Option(ArgTexts)
    /\ end_str \in Option(ArgTexts)
    /\ start = None /\ end = None
    /\ pc = "args"
    /\ InitRecording

InitFromValues ==
    /\ start_str = None /\ end_str = None
    /\ start \in Option(SpecValues)
    /\ end \in Option(SpecValues)
    /\ pc = "parsed"
    /\ InitRecording

Init == InitFromText \/ InitFromValues

\* parse_time_specification on each text given.  A text that fails to parse
\* yields no TimeSpecification, so no range is built from it.
ParseArgs ==
    /\ pc = "args"
    /\ LET ps == IF start_str.some THEN parse_time_specification(start_str.val) ELSE Ok(None)
           pe == IF end_str.some THEN parse_time_specification(end_str.val) ELSE Ok(None)
       IN  IF ps.ok /\ pe.ok
           THEN /\ start' = (IF start_str.some THEN Some(ps.val) ELSE None)
                /\ end' = (IF end_str.some THEN Some(pe.val) ELSE None)
                /\ pc' = "parsed"
           ELSE /\ pc' = "parse_error"
                /\ UNCHANGED <<start, end>>
    /\ UNCHANGED <<parseVars, auxVars, bufferVars, onsetVars, renderVars, start_str, end_str,
                   time_range, auto_start, resolved, outcome>>

CreateTimeRange ==
    /\ pc = "parsed"
    /\ time_range' = create_time_range(start, end)
    /\ pc' = "ranged"
    /\ UNCHANGED <<parseVars, auxVars, bufferVars, onsetVars, renderVars, start_str, end_str,
                   start, end, auto_start, resolved, outcome>>

Selected(res, chosen) ==
    /\ resolved' = res
    /\ outcome' = Some(SliceWindow(chosen, samples, sample_rate))
    /\ pc' = "done"
    /\ UNCHANGED <<parseVars, auxVars, bufferVars, onsetVars, renderVars, start_str, end_str,
                   start, end, time_range, auto_start>>

Detected == detect_start_time(auto_start.val, samples, sample_rate)

\* auto start, detect_start_time returned None: ok_or(..)?
SelectAutoUndetected ==
    /\ pc = "ranged" /\ auto_start.some
    /\ ~Detected.some
    /\ Selected(None, Err(Failure("Failed to detect start time", <<>>)))

\* auto start with a range: its end is resolved against the detected start
SelectAutoRange ==
    /\ pc = "ranged" /\ auto_start.some
    /\ Detected.some
    /\ time_range.some
    /\ LET total_duration == TotalDuration(samples, sample_rate)
           res == resolve(TimeRange(Seconds(Detected.val), time_range.val.end),
                          total_duration)
       IN  Selected(Some(res), Ok(<<Detected.val, EndOrTotal(res, total_duration)>>))

\* auto start without a range
SelectAutoFull ==
    /\ pc = "ranged" /\ auto_start.some
    /\ Detected.some
    /\ ~time_range.some
    /\ Selected(None, Ok(<<Detected.val, TotalDuration(samples, sample_rate)>>))

\* no auto start, a range: range.resolve(total_duration)?
SelectRange ==
    /\ pc = "ranged" /\ ~auto_start.some
    /\ time_range.some
    /\ LET res == resolve(time_range.val, TotalDuration(samples, sample_rate))
       IN  Selected(Some(res), res)

\* no auto start, no range
SelectFull ==
    /\ pc = "ranged" /\ ~auto_start.some
    /\ ~time_range.some
    /\ Selected(None, Ok(<<F(0), TotalDuration(samples, sample_rate)>>))

Next ==
    \/ ParseArgs
    \/ CreateTimeRange
    \/ SelectAutoUndetected
    \/ SelectAutoRange
    \/ SelectAutoFull
    \/ SelectRange
    \/ SelectFull

Spec == Init /\ [][Next]_vars

-----------------------------------------------------------------------------
(* Claims about time ranges, checked under Spec.                           *)

Total == TotalDuration(samples, sample_rate)

\* The seconds an endpoint stands for, by the rule of the specification.
SecondsOf(spec) ==
    IF spec.kind = "Seconds" THEN spec.s
    ELSE IF spec.kind = "MinutesSeconds" THEN F(spec.m * 60 + spec.s)
    ELSE IF IsNaN(spec.p) THEN NaN
    ELSE Rat(spec.p.n * Len(samples), spec.p.d * sample_rate)

\* The endpoints handed to the call of resolve that set `resolved`: with
\* automatic start the start is the detected onset.
ResolveStart ==
    IF auto_start.some THEN outcome.val.start_time ELSE SecondsOf(time_range.val.start)

ResolveEnd == SecondsOf(time_range.val.end)

Resolved == pc = "done" /\ resolved.some

ErrLess == Err(Failure("Start time must be less than end time", <<>>))
ErrNegative == Err(Failure("Start time must be positive", <<>>))
ErrExceeds ==
    Err(Failure("End time ({}) exceeds audio duration ({})", <<ResolveEnd, Total>>))

\* C1: resolve returns Ok((start, end)) only with 0 <= start < end <=
\* total_duration, the endpoints being the converted ones (never clamped),
\* and an error otherwise.
C1_ResolvedWithinBounds ==
    (Resolved /\ resolved.val.ok) =>
        /\ resolved.val.val = <<ResolveStart, ResolveEnd>>
        /\ FLe(F(0), resolved.val.val[1])
        /\ FLt(resolved.val.val[1], resolved.val.val[2])
        /\ FLe(resolved.val.val[2], Total)

\* C2 as stated: the checks are made in the order start >= 0, start < end,
\* end <= total_duration, so a negative start is always reported as a
\* negative start (stated for endpoints that are numbers).
C2_NegativeStartReportedFirst ==
    (Resolved /\ ~IsNaN(ResolveStart) /\ ~IsNaN(ResolveEnd)) =>
        resolved.val =
            IF FLt(ResolveStart, F(0)) THEN ErrNegative
            ELSE IF ~FLt(ResolveStart, ResolveEnd) THEN ErrLess
            ELSE IF ~FLe(ResolveEnd, Total) THEN ErrExceeds
            ELSE Ok(<<ResolveStart, ResolveEnd>>)

\* C2 amended: resolve fails (1) when start >= end, (2) when start < 0,
\* (3) when end > total_duration, each with its own error, tested in this
\* order; the error reported is that of the first test that is true, so a
\* negative start that is also >= end is reported as start-not-before-end.
C2_ChecksInCodeOrder ==
    Resolved =>
        resolved.val =
            IF FGe(ResolveStart, ResolveEnd) THEN ErrLess
            ELSE IF FLt(ResolveStart, F(0)) THEN ErrNegative
            ELSE IF FGt(ResolveEnd, Total) THEN ErrExceeds
            ELSE Ok(<<ResolveStart, ResolveEnd>>)

\* C2 witness: a negative start that is also >= end was resolved.
C2_Witness ==
    /\ Resolved
    /\ FLt(ResolveStart, F(0)) /\ FGe(ResolveStart, ResolveEnd)
    /\ resolved.val = ErrLess

\* C3: Seconds(s) -> s, MinutesSeconds(m, s) -> m*60+s, Percentage(p) ->
\* p * total_duration, each endpoint on its own; so "50%" of 10 seconds
\* resolves to 5, "1:30" to 90 and "2.5" to 2.5.
C3_EndpointConversion ==
    /\ (Resolved /\ resolved.val.ok) =>
           /\ resolved.val.val[2] = SecondsOf(time_range.val.end)
           /\ ~auto_start.some => resolved.val.val[1] = SecondsOf(time_range.val.start)
    /\ (Resolved /\ ~resolved.val.ok /\ resolved.val.err.args # <<>>) =>
           resolved.val.err.args[1] = SecondsOf(time_range.val.end)
    /\ (Resolved /\ resolved.val.ok /\ ~auto_start.some) =>
           /\ start_str = Some(T_50pct) /\ Total = F(10) => resolved.val.val[1] = F(5)
           /\ end_str = Some(T_50pct) /\ Total = F(10) => resolved.val.val[2] = F(5)
           /\ start_str = Some(T_1m30) => resolved.val.val[1] = F(90)
           /\ end_str = Some(T_1m30) => resolved.val.val[2] = F(90)
           /\ start_str = Some(T_2p5) => resolved.val.val[1] = Rat(5, 2)
           /\ end_str = Some(T_2p5) => resolved.val.val[2] = Rat(5, 2)

\* C3 witness: "2.5" to "50%" of a 10 second file resolved to (2.5, 5).
C3_Witness ==
    /\ Resolved /\ ~auto_start.some
    /\ start_str = Some(T_2p5) /\ end_str = Some(T_50pct)
    /\ resolved.val = Ok(<<Rat(5, 2), F(5)>>)

\* C3 witness of the minutes:seconds form: "1:30" resolved to 90.
C3_WitnessMinutes ==
    /\ Resolved /\ start_str = Some(T_1m30)
    /\ resolved.val.ok /\ resolved.val.val[1] = F(90)

\* C4: only a start gives end = Percentage(1.0), only an end gives start =
\* Seconds(0), neither gives no range; with no range and no automatic start
\* the analysis window is exactly (0, total_duration).
C4_DefaultEndpoints ==
    /\ pc \in {"ranged", "done"} =>
           /\ (start.some /\ ~end.some) =>
                  time_range = Some([start |-> start.val, end |-> Percentage(F(1))])
           /\ (~start.some /\ end.some) =>
                  time_range = Some([start |-> Seconds(F(0)), end |-> end.val])
           /\ (start.some /\ end.some) =>
                  time_range = Some([start |-> start.val, end |-> end.val])
           /\ (~start.some /\ ~end.some) => time_range = None
    /\ (pc = "done" /\ ~start.some /\ ~end.some /\ ~auto_start.some) =>
           /\ outcome.val.status = "window"
           /\ outcome.val.start_time = F(0) /\ outcome.val.end_time = Total
           /\ outcome.val.samples = samples
    /\ (Resolved /\ start.some /\ ~end.some /\ resolved.val.ok) =>
           resolved.val.val[2] = Total

\* C4 witness: no range and no automatic start, the whole file is analysed.
C4_Witness ==
    /\ pc = "done" /\ ~start.some /\ ~end.some /\ ~auto_start.some
    /\ Len(samples) > 0
    /\ outcome.val.status = "window" /\ outcome.val.samples = samples

\* C4 witness of a defaulted end: only a start, resolved to the full length.
C4_WitnessStartOnly ==
    /\ Resolved /\ start.some /\ ~end.some
    /\ resolved.val.ok /\ resolved.val.val[2] = Total

-----------------------------------------------------------------------------
(* SpecSpectrogram: create_spectrogram from the analysis window on, one    *)
(* frame of the transform per step, then the drawing.  samples is the      *)
(* analysis window.                                                        *)

MaxFrameSamples == 6

FrameSampleValues == {0, 1}

FrameBuffers == UNION {[1..k -> FrameSampleValues] : k \in 0..MaxFrameSamples}

WindowSizes == {1, 2, 3, 4, 5}

Overlaps == {F(0), Rat(1, 4), Rat(1, 2), Rat(3, 4)}

FrameRates == {40, 100}

Bands == {<<F(0), F(50)>>, <<F(10), F(250)>>, <<F(15), F(60)>>, <<F(20), F(1000)>>}

\* The most frames a buffer yields when the frame start advances.
FrameCap == MaxFrameSamples + 1

InitSpectrogram ==
    /\ ParseIdle
    /\ AuxIdle
    /\ OnsetIdle
    /\ RangeIdle
    /\ WaveformIdle
    /\ DecibelIdle
    /\ samples \in FrameBuffers
    /\ sample_rate \in FrameRates
    /\ window_size \in WindowSizes
    /\ overlap \in Overlaps
    /\ \E band \in Bands : min_freq = band[1] /\ max_freq = band[2]
    /\ hop_size = 0
    /\ frame_start = 0
    /\ spectrogram = <<>>
    /\ log_ticks = <<>>
    /\ plot = <<>>
    /\ sg_pc = "start"

\* let hop_size = ...; let mut spectrogram = Vec::new(); let mut i = 0;
PlanFrames ==
    /\ sg_pc = "start"
    /\ hop_size' = HopSize(window_size, overlap)
    /\ sg_pc' = "frames"
    /\ UNCHANGED <<parseVars, auxVars, bufferVars, onsetVars, rangeVars, waveVars, decibelVars,
                   window_size, overlap, min_freq, max_freq, frame_start,
                   spectrogram, log_ticks, plot>>

\* Mutant: the frame start advanced by the window size, not by the hop.
ComputeFrameNoOverlap ==
    /\ sg_pc = "frames"
    /\ frame_start + window_size <= Len(samples)
    /\ Len(spectrogram) < FrameCap
    /\ spectrogram' = Append(spectrogram,
                             Spectrum(Slice(samples, frame_start, frame_start + window_size),
                                      sample_rate, min_freq, max_freq))
    /\ frame_start' = frame_start + window_size
    /\ UNCHANGED <<parseVars, auxVars, bufferVars, onsetVars, rangeVars, waveVars, decibelVars,
                   window_size, overlap, min_freq, max_freq, hop_size,
                   log_ticks, plot, sg_pc>>

\* One pass through the body of `while i + window_size <= samples.len()`.
\* The model stops a run at FrameCap frames.
ComputeFrame ==
    /\ sg_pc = "frames"
    /\ frame_start + window_size <= Len(samples)
    /\ Len(spectrogram) < FrameCap
    /\ spectrogram' = Append(spectrogram,
                             Spectrum(Slice(samples, frame_start, frame_start + window_size),
                                      sample_rate, min_freq, max_freq))
    /\ frame_start' = frame_start + hop_size
    /\ UNCHANGED <<parseVars, auxVars, bufferVars, onsetVars, rangeVars, waveVars, decibelVars,
                   window_size, overlap, min_freq, max_freq, hop_size,
                   log_ticks, plot, sg_pc>>

\* The loop is left; the tick list and the drawing.
Render ==
    /\ sg_pc = "frames"
    /\ ~(frame_start + window_size <= Len(samples))
    /\ log_ticks' = LogTicks(min_freq, max_freq)
    /\ plot' = Plot(spectrogram, samples, sample_rate, window_size, min_freq, max_freq)
    /\ sg_pc' = "done"
    /\ UNCHANGED <<parseVars, auxVars, bufferVars, onsetVars, rangeVars, waveVars, decibelVars,
                   window_size, overlap, min_freq, max_freq, hop_size, frame_start,
                   spectrogram>>

NextSpectrogram == PlanFrames \/ ComputeFrame \/ Render

SpecSpectrogram == InitSpectrogram /\ [][NextSpectrogram]_vars

-----------------------------------------------------------------------------
(* Claims about the spectrogram, checked under SpecSpectrogram.            *)

\* C11: the frame loop terminates: every pass through its body moves the
\* frame start forward, because the hop is at least 1 whenever the loop runs
\* (an overlap that makes the hop 0 is rejected before the loop).
C11_FrameLoopAdvances ==
    [][(sg_pc = "frames" /\ sg_pc' = "frames") => frame_start' > frame_start]_vars

\* C12: the frames are exactly those that start at f * hop for f = 0, 1, 2,
\* ... while f * hop + N <= len, in that order: frame f is the spectrum of
\* samples [f * hop, f * hop + N) and of nothing else and has floor(N / 2)
\* bins; when the loop is left there are 0 frames if len < N and
\* floor((len - N) / hop) + 1 frames otherwise.
C12_FramesAtMultiplesOfHop ==
    sg_pc \in {"frames", "done"} =>
        /\ frame_start = Len(spectrogram) * hop_size
        /\ \A f \in 1..Len(spectrogram) :
              LET from == (f - 1) * hop_size
              IN  /\ from + window_size <= Len(samples)
                  /\ Len(spectrogram[f]) = window_size \div 2
                  /\ spectrogram[f] =
                        Spectrum(Slice(samples, from, from + window_size),
                                 sample_rate, min_freq, max_freq)
        /\ sg_pc = "done" =>
              Len(spectrogram) =
                  IF Len(samples) < window_size THEN 0
                  ELSE (Len(samples) - window_size) \div hop_size + 1

\* Overlapping frames, and samples left over after the last one.
C12_Witness ==
    /\ sg_pc = "done"
    /\ Len(spectrogram) >= 2
    /\ hop_size < window_size
    /\ (Len(samples) - window_size) % hop_size # 0

\* C13: the time attached to frame f is f * hop / sample_rate.
C13_FrameTimeIsStartOfFrame ==
    sg_pc = "done" =>
        \A f \in 1..Len(plot) : plot[f].time = Rat((f - 1) * hop_size, sample_rate)

\* C14: bin k has the center frequency k * sample_rate / N in both places
\* that use it: the band test made when a frame is computed keeps the level
\* of bin k exactly when k * sample_rate / N is in [min_freq, max_freq], and
\* the drawing loop gives bin k that same frequency, for even and odd N.
C14_OneBinFrequency ==
    sg_pc = "done" =>
        \A f \in 1..Len(plot) : \A b \in 1..Len(plot[f].cells) :
            LET center == Rat((b - 1) * sample_rate, window_size)
            IN  /\ (spectrogram[f][b].kind = "20log10") = InBand(center, min_freq, max_freq)
                /\ plot[f].cells[b].freq = center

\* C15: every level stored in a frame is at or above the floor of -128 dB;
\* in particular a bin of magnitude 0 is stored as the floor, not as minus
\* infinity.  (Of a positive squared amplitude n/d the model decides
\* 10 log10(n/d) >= -128 for d / n < 10^9; the squared amplitudes it leaves
\* uninterpreted are taken to be above the floor.)
C15_StoredLevelsClamped ==
    \A f \in 1..Len(spectrogram) : \A b \in 1..Len(spectrogram[f]) :
        LET level == spectrogram[f][b]
        IN  /\ ~IsNegInfinity(level)
            /\ level.kind = "dB" => level.db >= min_db
            /\ (level.kind = "20log10" /\ "n" \in DOMAIN level.squared) =>
                  level.squared.n > 0 /\ level.squared.d \div level.squared.n < 1000000000

\* The values d, 2d and 5d of the decades d = 10, 100, ... <= hi that lie in
\* [lo, hi].
DecadeTicks(lo, hi) ==
    {v \in {F(m * Pow10(k)) : m \in {1, 2, 5},
                              k \in {e \in 1..9 : FLe(F(Pow10(e)), hi)}} :
        InBand(v, lo, hi)}

\* C17: the tick list is the ascending list, without repetition, of all the
\* values d, 2d, 5d (d = 10, 100, ... <= max_freq) inside
\* [min_freq, max_freq], whether or not d itself is inside.
C17_AllDecadeTicks ==
    sg_pc = "done" =>
        /\ \A k \in 1..(Len(log_ticks) - 1) : FLt(log_ticks[k], log_ticks[k + 1])
        /\ {log_ticks[k] : k \in 1..Len(log_ticks)} = DecadeTicks(min_freq, max_freq)

-----------------------------------------------------------------------------
(* SpecWaveform: create_waveform from the analysis window on: the window   *)
(* width, then calculate_rms one sample per step.                          *)

MaxWaveSamples == 5

WaveSampleValues == {-1, 0, 2}

WaveBuffers == UNION {[1..k -> WaveSampleValues] : k \in 0..MaxWaveSamples}

WaveRates == {50, 75, 100, 125, 200, 275}

InitWaveform ==
    /\ ParseIdle
    /\ AuxIdle
    /\ OnsetIdle
    /\ RangeIdle
    /\ SpectrogramIdle
    /\ DecibelIdle
    /\ samples \in WaveBuffers
    /\ sample_rate \in WaveRates
    /\ rms_window_size = 0
    /\ rms_values = <<>>
    /\ rms_i = 0
    /\ wave_pc = "start"

\* let window_size = (sample_rate * 0.02) as usize; and the entry to calculate_rms
ChooseWindow ==
    /\ wave_pc = "start"
    /\ rms_window_size' = WaveWindowSize(sample_rate)
    /\ wave_pc' = "rms"
    /\ UNCHANGED <<parseVars, auxVars, bufferVars, onsetVars, rangeVars, spectrogramVars,
                   decibelVars, rms_values, rms_i>>

\* One pass through the body of `for i in 0..samples.len()`.
RmsStep ==
    /\ wave_pc = "rms"
    /\ rms_i < Len(samples)
    /\ rms_values' = Append(rms_values, WindowRms(samples, rms_i, rms_window_size))
    /\ rms_i' = rms_i + 1
    /\ UNCHANGED <<parseVars, auxVars, bufferVars, onsetVars, rangeVars, spectrogramVars,
                   decibelVars, rms_window_size, wave_pc>>

\* The loop is left and rms_values returned.
RmsReturn ==
    /\ wave_pc = "rms"
    /\ rms_i >= Len(samples)
    /\ wave_pc' = "done"
    /\ UNCHANGED <<parseVars, auxVars, bufferVars, onsetVars, rangeVars, spectrogramVars,
                   decibelVars, rms_window_size, rms_values, rms_i>>

NextWaveform == ChooseWindow \/ RmsStep \/ RmsReturn

SpecWaveform == InitWaveform /\ [][NextWaveform]_vars

-----------------------------------------------------------------------------
(* Claims about the RMS track, checked under SpecWaveform.                 *)

Max(a, b) == IF a > b THEN a ELSE b

Min(a, b) == IF a < b THEN a ELSE b

\* The mean of the squares of samples [lo, hi) of samples.
MeanSquare(lo, hi) ==
    Rat(SumSquares([k \in 1..(hi - lo) |-> samples[lo + k]]), hi - lo)

\* C18: calculate_rms returns one value per sample, and the value at index
\* i is the RMS over samples [max(0, i - window_size / 2),
\* min(len, i + window_size / 2)): the window is cut at the edges of the
\* buffer, not padded.  (Stated on the squares of the values.)
C18_CenteredTruncatedWindow ==
    /\ Len(rms_values) = rms_i
    /\ wave_pc = "done" => Len(rms_values) = Len(samples)
    /\ \A k \in 0..(Len(rms_values) - 1) :
          LET half == rms_window_size \div 2
          IN  rms_values[k + 1] =
                  MeanSquare(Max(0, k - half), Min(Len(samples), k + half))

\* A window cut at both edges and a full one in between, over a signal.
C18_Witness ==
    /\ wave_pc = "done"
    /\ rms_window_size = 4
    /\ Len(samples) = 5
    /\ samples[1] # 0 /\ samples[5] # 0 /\ samples[1] # samples[5]

-----------------------------------------------------------------------------
(* SpecDecibel: the peak track of create_waveform on either scale.         *)
(* samples are f32 amplitudes here.                                        *)

MaxPeaks == 2

DbMagnitudes ==
    {Rat(1, 10000000), Rat(1, 1000000), Rat(1, 2000), Rat(1, 1000), Rat(1, 999),
     Rat(1, 2), F(1)}

DbAmplitudes == {F(0), NaN} \cup DbMagnitudes \cup {FNeg(a) : a \in DbMagnitudes}

Scales == {"Amplitude", "Decibel"}

InitDecibel ==
    /\ ParseIdle
    /\ AuxIdle
    /\ OnsetIdle
    /\ RangeIdle
    /\ SpectrogramIdle
    /\ WaveformIdle
    /\ samples \in UNION {[1..k -> DbAmplitudes] : k \in 0..MaxPeaks}
    /\ sample_rate = 1
    /\ scale \in Scales
    /\ peak_points = <<>>
    /\ db_pc = "start"

\* peak_points: the sample itself, or amplitude_to_db(sample)
DrawPeaks ==
    /\ db_pc = "start"
    /\ peak_points' = [k \in 1..Len(samples) |->
                          IF scale = "Decibel" THEN amplitude_to_db(samples[k])
                          ELSE samples[k]]
    /\ db_pc' = "done"
    /\ UNCHANGED <<parseVars, auxVars, bufferVars, onsetVars, rangeVars, spectrogramVars,
                   waveVars, scale>>

NextDecibel == DrawPeaks

SpecDecibel == InitDecibel /\ [][NextDecibel]_vars

-----------------------------------------------------------------------------
(* Claims about the decibel scale, checked under SpecDecibel.              *)

\* C20: amplitude_to_db never returns less than -60 dB: it returns exactly
\* -60 for |a| < 1e-6 and for every a with 20 log10 |a| <= -60, that is
\* |a| <= 0.001, and 20 log10 |a| for every other amplitude; a and -a get
\* the same level.
C20_DecibelFloor ==
    (db_pc = "done" /\ scale = "Decibel") =>
        \A k \in 1..Len(samples) :
            LET a == FAbs(samples[k])
                v == peak_points[k]
            IN  /\ \/ v = Level(-60)
                   \/ (v.kind = "20log10" /\ FGt(v.squared, Rat(1, 1000000)))
                /\ (FLt(a, Rat(1, 1000000)) \/ FLe(a, Rat(1, 1000))) => v = Level(-60)
                /\ FGt(a, Rat(1, 1000)) => v = Log10Level(FMul(a, a))
                /\ \A j \in 1..Len(samples) :
                      samples[j] = FNeg(samples[k]) => peak_points[j] = v

\* An amplitude above the floor together with its negative.
C20_Witness ==
    /\ db_pc = "done" /\ scale = "Decibel"
    /\ \E j, k \in 1..Len(samples) :
          FGt(samples[k], Rat(1, 1000)) /\ samples[j] = FNeg(samples[k])

-----------------------------------------------------------------------------
(* SpecGrid: calculate_grid_interval applied to a visible duration.  The   *)
(* durations are the multiples of 5 ms and of 5 s up to MaxGridSteps       *)
(* steps, and NaN, the length of a window one of whose ends is NaN.        *)

MaxGridSteps == 60

GridDurations ==
    {Rat(k, 200) : k \in 0..MaxGridSteps} \cup {F(5 * k) : k \in 0..MaxGridSteps}
        \cup {NaN}

InitGrid ==
    /\ ParseIdle
    /\ BufferIdle
    /\ OnsetIdle
    /\ RangeIdle
    /\ RenderIdle
    /\ AnnotationIdle /\ BatchIdle /\ PcmIdle /\ HeaderIdle
    /\ duration \in GridDurations
    /\ grid_interval = None

\* let grid_interval = calculate_grid_interval(duration);
CallGridInterval ==
    /\ grid_interval = None
    /\ grid_interval' = Some(calculate_grid_interval(duration))
    /\ UNCHANGED <<parseVars, bufferVars, onsetVars, rangeVars, renderVars,
                   annotationVars, batchVars, pcmVars, headerVars, duration>>

NextGrid == CallGridInterval

SpecGrid == InitGrid /\ [][NextGrid]_vars

-----------------------------------------------------------------------------
(* Claims about the grid interval, checked under SpecGrid.                 *)

Ladder == {intervals[k] : k \in 1..Len(intervals)}

\* C21: calculate_grid_interval(d) always returns a member of the ladder; no
\* other member is strictly closer to d / 10 than the one returned, and of
\* two members equally close the smaller is returned.
C21_ClosestLadderMember ==
    grid_interval.some =>
        LET ideal == FDiv(duration, F(10))
            outcome_ == grid_interval.val
        IN  /\ outcome_.status = "returned"
            /\ outcome_.value \in Ladder
            /\ \A m \in Ladder :
                  /\ ~FLt(Diff(m, ideal), Diff(outcome_.value, ideal))
                  /\ Diff(m, ideal) = Diff(outcome_.value, ideal) =>
                        FLe(outcome_.value, m)

-----------------------------------------------------------------------------
(* SpecAnnotation: the two annotation parsers applied to every text of at  *)
(* most MaxLen characters over Alphabet.                                   *)

InitAnnotation ==
    /\ ParseIdle
    /\ BufferIdle
    /\ OnsetIdle
    /\ RangeIdle
    /\ RenderIdle
    /\ GridIdle /\ BatchIdle /\ PcmIdle /\ HeaderIdle
    /\ annotation_fn \in {"frequency", "time"}
    /\ annotation_str \in Texts
    /\ annotation = None

ParseFrequencyAnnotation ==
    /\ annotation = None
    /\ annotation_fn = "frequency"
    /\ annotation' = Some(parse_frequency_annotation(annotation_str))
    /\ UNCHANGED <<parseVars, bufferVars, onsetVars, rangeVars, renderVars,
                   gridVars, batchVars, pcmVars, headerVars,
                   annotation_fn, annotation_str>>

ParseTimeAnnotation ==
    /\ annotation = None
    /\ annotation_fn = "time"
    /\ annotation' = Some(parse_time_annotation(annotation_str))
    /\ UNCHANGED <<parseVars, bufferVars, onsetVars, rangeVars, renderVars,
                   gridVars, batchVars, pcmVars, headerVars,
                   annotation_fn, annotation_str>>

NextAnnotation == ParseFrequencyAnnotation \/ ParseTimeAnnotation

SpecAnnotation == InitAnnotation /\ [][NextAnnotation]_vars

-----------------------------------------------------------------------------
(* Claims about annotations, checked under SpecAnnotation.                 *)

Colons(s) == Cardinality({k \in 1..Len(s) : s[k] = ":"})

BeforeColon(s) == SubSeq(s, 1, IndexOf(s, ":") - 1)

AfterColon(s) == SubSeq(s, IndexOf(s, ":") + 1, Len(s))

\* C22: an annotation is split once, at its first ':': when it contains a
\* ':' and the text before the first ':' parses as a float, the result is
\* that number with the label everything after the first ':' (which may
\* contain ':'); with no ':' or a non-numeric first part the parse fails.
\* Both parsers.
C22_SplitAtFirstColon ==
    annotation.some =>
        IF Colons(annotation_str) >= 1 /\ parse_f32(BeforeColon(annotation_str)).ok
        THEN annotation.val =
                Ok(<<parse_f32(BeforeColon(annotation_str)).val, AfterColon(annotation_str)>>)
        ELSE ~annotation.val.ok

\* C22, as the code has it: the text is split at every ':' and must give
\* exactly two parts: with exactly one ':' and a first part that parses as a
\* float the result is that number and the label after the ':'; with no
\* ':', with more than one ':' (a label cannot contain ':'), or with a
\* non-numeric first part the parse fails.  Both parsers.
C22_ExactlyOneColon ==
    annotation.some =>
        IF Colons(annotation_str) = 1 /\ parse_f32(BeforeColon(annotation_str)).ok
        THEN annotation.val =
                Ok(<<parse_f32(BeforeColon(annotation_str)).val, AfterColon(annotation_str)>>)
        ELSE ~annotation.val.ok

\* A numeric first part and a second ':' after it: rejected.
C22_Witness ==
    /\ annotation.some
    /\ Colons(annotation_str) = 2
    /\ parse_f32(BeforeColon(annotation_str)).ok
    /\ ~annotation.val.ok

-----------------------------------------------------------------------------
(* SpecBatch: create_spectrograms / create_waveforms walking a directory.  *)
(* A directory entry is described by what processing it runs into:         *)
(*   "not_wav"            the extension is missing or is not "wav";        *)
(*   "ok"                 a WAV file that is read, selected and plotted;   *)
(*   "bad_header"         WavReader::open returns Err;                     *)
(*   "truncated_samples"  the header is read, a sample of the stream       *)
(*                        decodes to Err;                                  *)
(*   "range_error"        the samples are read, TimeRange::resolve         *)
(*                        returns Err.                                     *)
(* The two commands have the same loop and the same reading code.          *)

MaxFiles == 3

EntryKinds == {"not_wav", "ok", "bad_header", "truncated_samples", "range_error"}

Directories == UNION {[1..n -> EntryKinds] : n \in 0..MaxFiles}

\* create_spectrogram / create_waveform on one file: `?` on the reader and
\* on the resolved range returns Err, `s.unwrap()` on a sample panics.
create_spectrogram(kind) ==
    CASE kind = "bad_header" -> [status |-> "returned", value |-> Err("open")]
      [] kind = "truncated_samples" -> [status |-> "panic"]
      [] kind = "range_error" -> [status |-> "returned", value |-> Err("range")]
      [] OTHER -> [status |-> "returned", value |-> Ok("created")]

is_wav(kind) == kind # "not_wav"

InitBatch ==
    /\ ParseIdle
    /\ BufferIdle
    /\ OnsetIdle
    /\ RangeIdle
    /\ RenderIdle
    /\ GridIdle /\ AnnotationIdle /\ PcmIdle /\ HeaderIdle
    /\ entries \in Directories
    /\ entry_index = 1
    /\ reports = <<>>
    /\ batch_pc = "run"

BatchFrame ==
    UNCHANGED <<parseVars, bufferVars, onsetVars, rangeVars, renderVars,
                gridVars, annotationVars, pcmVars, headerVars, entries>>

InBatch == batch_pc = "run" /\ entry_index <= Len(entries)

\* An entry without the wav extension is passed over.
BatchSkip ==
    /\ InBatch
    /\ ~is_wav(entries[entry_index])
    /\ entry_index' = entry_index + 1
    /\ UNCHANGED <<reports, batch_pc>>
    /\ BatchFrame

\* Ok(_) => println!("Created ...")
BatchCreated ==
    /\ InBatch
    /\ is_wav(entries[entry_index])
    /\ LET r == create_spectrogram(entries[entry_index])
       IN  /\ r.status = "returned" /\ r.value.ok
           /\ reports' = Append(reports, [entry |-> entry_index, line |-> "Created"])
    /\ entry_index' = entry_index + 1
    /\ UNCHANGED batch_pc
    /\ BatchFrame

\* Err(e) => eprintln!("Error processing ...")
BatchError ==
    /\ InBatch
    /\ is_wav(entries[entry_index])
    /\ LET r == create_spectrogram(entries[entry_index])
       IN  /\ r.status = "returned" /\ ~r.value.ok
           /\ reports' = Append(reports, [entry |-> entry_index, line |-> "Error processing"])
    /\ entry_index' = entry_index + 1
    /\ UNCHANGED batch_pc
    /\ BatchFrame

\* A panic inside the call unwinds through the loop: the run ends there.
BatchPanic ==
    /\ InBatch
    /\ is_wav(entries[entry_index])
    /\ create_spectrogram(entries[entry_index]).status = "panic"
    /\ batch_pc' = "panic"
    /\ UNCHANGED <<entry_index, reports>>
    /\ BatchFrame

\* The walker is exhausted: the function returns.
BatchDone ==
    /\ batch_pc = "run"
    /\ entry_index > Len(entries)
    /\ batch_pc' = "done"
    /\ UNCHANGED <<entry_index, reports>>
    /\ BatchFrame

NextBatch == BatchSkip \/ BatchCreated \/ BatchError \/ BatchPanic \/ BatchDone

SpecBatch == InitBatch /\ [][NextBatch]_vars

-----------------------------------------------------------------------------
(* Claims about batch processing, checked under SpecBatch.                 *)

Reported(k) == \E j \in 1..Len(reports) : reports[j].entry = k

ReportedAs(k, line) == \E j \in 1..Len(reports) : reports[j] = [entry |-> k, line |-> line]

FailingKinds == {"bad_header", "truncated_samples", "range_error"}

\* C23: in batch mode a file whose decoding fails (unreadable header, or
\* truncated or malformed sample stream) or whose time range fails is
\* reported as an error for that file only and never aborts the run: the
\* run does not end in a panic, every failing WAV file passed gets an error
\* line, and when the run ends every WAV entry has been reported.
C23_ErrorsNeverAbortRun ==
    /\ batch_pc # "panic"
    /\ \A k \in 1..Len(entries) :
          /\ (k < entry_index /\ entries[k] \in FailingKinds)
                => ReportedAs(k, "Error processing")
          /\ (batch_pc = "done" /\ is_wav(entries[k])) => Reported(k)

-----------------------------------------------------------------------------
(* Claims about the selection of the analysis window, checked under Spec.  *)

\* C24: no range error is silently swallowed: whenever resolving the
\* requested range against the file's duration fails, the analysis of the
\* file ends with that error, on every path including automatic start
\* detection; it never continues with a substituted end time.
C24_RangeErrorSurfaced ==
    (Resolved /\ ~resolved.val.ok) =>
        /\ outcome.val.status = "error"
        /\ outcome.val.err = resolved.val.err

\* C25: a missing onset is not an error: with automatic start detection
\* enabled and detect_start_time returning None, the analysis does not fail
\* but proceeds with a fallback window.
C25_MissingOnsetFallsBack ==
    (pc = "done" /\ auto_start.some /\ ~Detected.some) =>
        outcome.val.status = "window"

\* C29: on every path that selects the analysis window, start_sample <=
\* end_sample <= len(samples): the slice of the decoded buffer is never out
\* of bounds, also with automatic start and a requested end before the
\* detected start.
C29_SliceWithinBuffer ==
    (pc = "done") =>
        /\ outcome.val.status # "panic"
        /\ outcome.val.status = "window" =>
              /\ outcome.val.start_sample <= outcome.val.end_sample
              /\ outcome.val.end_sample <= Len(samples)

-----------------------------------------------------------------------------
(* Claim about the positions the onset scan covers, checked under          *)
(* SpecOnset.                                                              *)

\* Every start index k of a full window: k + window_size <= len(samples).
FullWindows == 0..(Len(samples) - config.window_size)

\* C28: the onset scan evaluates every full window position, the last one
\* i = len - window_size included: the detector triggers at the smallest
\* full window position whose RMS exceeds the threshold, and a trigger at p
\* succeeds whenever a full window position i >= p + min_samples exists.
C28_EveryFullWindowExamined ==
    onset_pc = "done" =>
        \A p \in FullWindows :
            (RmsAbove(p) /\ \A k \in 0..(p - 1) : ~RmsAbove(k)) =>
                /\ triggered
                /\ potential_start = p
                /\ (\E k \in FullWindows : k >= p + MinSamplesOf) => result.some

-----------------------------------------------------------------------------
(* Claim about the RMS windows, checked under SpecWaveform.                *)

\* C30: every window over which the waveform RMS is computed is non-empty:
\* for every positive sample rate and every index of a non-empty buffer
\* start < end in calculate_rms, and no RMS value is NaN, also for sample
\* rates below 100 Hz where window_size / 2 is 0.
C30_RmsWindowNonEmpty ==
    \A k \in 0..(Len(rms_values) - 1) :
        /\ RmsWindowStart(k, rms_window_size)
               < RmsWindowEnd(k, rms_window_size, Len(samples))
        /\ ~IsNaN(rms_values[k + 1])

-----------------------------------------------------------------------------
(* SpecPcm: one integer sample of a WAV file of each supported bit depth,  *)
(* normalised as the three readers do.                                     *)

MaxPcmOffset == 3

BitDepths == {8, 16, 24, 32}

\* The samples hound delivers for a file of the given depth.
SampleMin(bits) == IF bits = 32 THEN I32_MIN ELSE -Pow2(bits - 1)

SampleMax(bits) == IF bits = 32 THEN I32_MAX ELSE Pow2(bits - 1) - 1

PcmSamples(bits) ==
    UNION { { SampleMin(bits) + k, SampleMax(bits) - k, k, -k,
              Pow2(bits - 2) + k, -Pow2(bits - 2) - k } : k \in 0..MaxPcmOffset }

InitPcm ==
    /\ ParseIdle
    /\ BufferIdle
    /\ OnsetIdle
    /\ RangeIdle
    /\ RenderIdle
    /\ GridIdle /\ AnnotationIdle /\ BatchIdle /\ HeaderIdle
    /\ bits_per_sample \in BitDepths
    /\ pcm_sample \in PcmSamples(bits_per_sample)
    /\ max_value = None
    /\ normalized = None

\* let max_value = (1 << (bits - 1)) as f32;
ComputeMaxValue ==
    /\ max_value = None
    /\ max_value' = Some(pcm_max_value(bits_per_sample))
    /\ UNCHANGED <<parseVars, bufferVars, onsetVars, rangeVars, renderVars,
                   gridVars, annotationVars, batchVars, headerVars,
                   bits_per_sample, pcm_sample, normalized>>

\* sample as f32 / max_value
NormalizeSample ==
    /\ max_value.some
    /\ normalized = None
    /\ normalized' = Some(normalize(pcm_sample, max_value.val))
    /\ UNCHANGED <<parseVars, bufferVars, onsetVars, rangeVars, renderVars,
                   gridVars, annotationVars, batchVars, headerVars,
                   bits_per_sample, pcm_sample, max_value>>

NextPcm == ComputeMaxValue \/ NormalizeSample

SpecPcm == InitPcm /\ [][NextPcm]_vars

-----------------------------------------------------------------------------
(* Claim about PCM normalisation, checked under SpecPcm.                   *)

Sign(x) == IF x < 0 THEN -1 ELSE IF x > 0 THEN 1 ELSE 0

\* -1 <= m * 2^e < 1 for m odd or zero; |m| <= 2^24.
InUnitInterval(v) ==
    \/ v.m = 0
    \/ v = [m |-> -1, e |-> 0]
    \/ v.e < 0 /\ (-v.e > 24 \/ Abs(v.m) < Pow2(-v.e))

\* C26: integer PCM samples are normalised by the positive value
\* 2^(bits_per_sample - 1) for each of the depths 8, 16, 24 and 32: the
\* divisor computed in machine integers is that power of two, the sign of
\* every sample is preserved and the result lies in [-1, 1).
C26_NormalizedByPowerOfTwo ==
    /\ max_value.some =>
          max_value.val = [m |-> 1, e |-> bits_per_sample - 1]
    /\ normalized.some =>
          /\ Sign(normalized.val.m) = Sign(pcm_sample)
          /\ InUnitInterval(normalized.val)

-----------------------------------------------------------------------------
(* SpecHeader: read_from_file on the bytes of a written header, cut at     *)
(* every length or followed by data bytes, one read per step.              *)

MaxTrailing == 2

\* v in n bytes, least significant first.
LittleEndianBytes(v, n) == [k \in 1..n |-> (v \div (256 ^ (k - 1))) % 256]

\* The 36 bytes of a canonical WAV header with the given field values.
WriteHeader(h) ==
    h.chunk_id \o LittleEndianBytes(h.chunk_size, 4) \o h.format \o h.subchunk1_id
    \o LittleEndianBytes(h.subchunk1_size, 4) \o LittleEndianBytes(h.audio_format, 2)
    \o LittleEndianBytes(h.num_channels, 2) \o LittleEndianBytes(h.sample_rate, 4)
    \o LittleEndianBytes(h.byte_rate, 4) \o LittleEndianBytes(h.block_align, 2)
    \o LittleEndianBytes(h.bits_per_sample, 2)

\* "RIFF", "WAVE", "fmt "
Riff == <<82, 73, 70, 70>>
Wave == <<87, 65, 86, 69>>
Fmt == <<102, 109, 116, 32>>

KnownHeaders ==
    { [chunk_id |-> Riff, chunk_size |-> cs, format |-> Wave, subchunk1_id |-> Fmt,
       subchunk1_size |-> 16, audio_format |-> af, num_channels |-> ch,
       sample_rate |-> sr, byte_rate |-> sr * ch * (bits \div 8),
       block_align |-> ch * (bits \div 8), bits_per_sample |-> bits] :
      cs \in {36, 16909060}, af \in {1, 3}, ch \in {1, 2}, sr \in {8000, 44100},
      bits \in {8, 16} }

DataBytes == [k \in 1..MaxTrailing |-> 100 + k]

Streams ==
    UNION { { SubSeq(WriteHeader(h) \o DataBytes, 1, n) :
                n \in 0..(Len(WriteHeader(h)) + MaxTrailing) } : h \in KnownHeaders }

InitHeader ==
    /\ ParseIdle
    /\ BufferIdle
    /\ OnsetIdle
    /\ RangeIdle
    /\ RenderIdle
    /\ GridIdle /\ AnnotationIdle /\ BatchIdle /\ PcmIdle
    /\ stream \in Streams
    /\ cursor = 0
    /\ header = EmptyHeader
    /\ header_result = None

HeaderFrame ==
    UNCHANGED <<parseVars, bufferVars, onsetVars, rangeVars, renderVars,
                gridVars, annotationVars, batchVars, pcmVars, stream>>

Reading == header_result = None /\ ReadIndex(cursor) <= Len(Reads)

\* The next read succeeds: the field is assigned and the file advances.
ReadNextField(kind) ==
    /\ Reading
    /\ LET k == ReadIndex(cursor)
           r == ReadField(stream, cursor, k)
       IN  /\ Reads[k].kind = kind
           /\ r.ok
           /\ header' = [header EXCEPT ![Reads[k].field] = r.val]
           /\ cursor' = cursor + Reads[k].size
    /\ UNCHANGED header_result
    /\ HeaderFrame

\* file.read_exact(&mut header.chunk_id)?; and the two like it
ReadId == ReadNextField("bytes")

\* header.chunk_size = file.read_u32::<LittleEndian>()?; and the three like it
ReadU32 == ReadNextField("u32")

\* header.audio_format = file.read_u16::<LittleEndian>()?; and the three like it
ReadU16 == ReadNextField("u16")

\* `?` on a read that fails: the error is returned, the header dropped.
ReadFails ==
    /\ Reading
    /\ LET r == ReadField(stream, cursor, ReadIndex(cursor))
       IN  /\ ~r.ok
           /\ header_result' = Some(r)
    /\ UNCHANGED <<cursor, header>>
    /\ HeaderFrame

\* Ok(header)
ReturnHeader ==
    /\ header_result = None
    /\ ReadIndex(cursor) > Len(Reads)
    /\ header_result' = Some(Ok(header))
    /\ UNCHANGED <<cursor, header>>
    /\ HeaderFrame

NextHeader == ReadId \/ ReadU32 \/ ReadU16 \/ ReadFails \/ ReturnHeader

SpecHeader == InitHeader /\ [][NextHeader]_vars

-----------------------------------------------------------------------------
(* Claim about the header reader, checked under SpecHeader.                *)

\* The little-endian value of bytes a + 1 .. b of the stream.
RECURSIVE LittleEndianAt(_, _)
LittleEndianAt(a, b) ==
    IF a >= b THEN 0 ELSE stream[a + 1] + 256 * LittleEndianAt(a + 1, b)

\* C27: read_from_file reads exactly the first 36 bytes in the order chunk
\* id (4), chunk size (u32), format (4), subchunk id (4), subchunk size
\* (u32), audio format (u16), channels (u16), sample rate (u32), byte rate
\* (u32), block align (u16), bits per sample (u16), little-endian, without
\* gaps: a header written with known field values is read back with the
\* same values, and a stream shorter than 36 bytes yields an error, never a
\* partly filled header.
C27_HeaderReadBack ==
    header_result.some =>
        IF Len(stream) >= 36
        THEN /\ cursor = 36
             /\ header_result.val =
                  Ok([chunk_id |-> SubSeq(stream, 1, 4),
                      chunk_size |-> LittleEndianAt(4, 8),
                      format |-> SubSeq(stream, 9, 12),
                      subchunk1_id |-> SubSeq(stream, 13, 16),
                      subchunk1_size |-> LittleEndianAt(16, 20),
                      audio_format |-> LittleEndianAt(20, 22),
                      num_channels |-> LittleEndianAt(22, 24),
                      sample_rate |-> LittleEndianAt(24, 28),
                      byte_rate |-> LittleEndianAt(28, 32),
                      block_align |-> LittleEndianAt(32, 34),
                      bits_per_sample |-> LittleEndianAt(34, 36)])
             /\ \A h \in KnownHeaders :
                   SubSeq(stream, 1, 36) = WriteHeader(h) => header_result.val = Ok(h)
        ELSE header_result.val = Err("UnexpectedEof")

\* A whole header with multi-byte values, followed by data, read back.
C27_Witness ==
    /\ header_result.some /\ header_result.val.ok
    /\ Len(stream) > 36
    /\ header_result.val.val.sample_rate = 44100
    /\ header_result.val.val.chunk_size = 16909060
    /\ header_result.val.val.num_channels = 2


====
